---- MODULE Spec2Model ----
(***************************************************************************)
(* Model of the candidate scoring, filtering and sorting logic of the      *)
(* hiring-manager application (lib/candidateUtils.ts and its callers).     *)
(*                                                                         *)
(* JavaScript numbers are IEEE-754 doubles.  The arithmetic of             *)
(* calculateOverallScore is modelled bit-exactly for finite, non-negative, *)
(* normal doubles: a double is a record [m, e] standing for m * 2^e, where *)
(* m is zero or a 53-bit natural number.  Because the model checker's      *)
(* integers are 32 bits wide, m is held as a little-endian sequence of     *)
(* 15-bit limbs.                                                           *)
(***************************************************************************)
EXTENDS Integers, Sequences, FiniteSets, TLC

----------------------------------------------------------------------------
(* Natural numbers of arbitrary size: little-endian sequences of limbs,    *)
(* without leading zero limbs; <<>> is zero.                               *)

Base == 2^15

RECURSIVE IntBitLen(_)
IntBitLen(x) == IF x = 0 THEN 0 ELSE 1 + IntBitLen(x \div 2)

LimbBits == IntBitLen(Base) - 1

RECURSIVE BigTrim(_)
BigTrim(a) ==
  IF a # <<>> /\ a[Len(a)] = 0 THEN BigTrim(SubSeq(a, 1, Len(a) - 1)) ELSE a

RECURSIVE BigFromInt(_)
BigFromInt(n) ==
  IF n = 0 THEN <<>> ELSE <<n % Base>> \o BigFromInt(n \div Base)

RECURSIVE BigToInt(_)
BigToInt(a) ==
  IF a = <<>> THEN 0 ELSE Head(a) + Base * BigToInt(Tail(a))

RestOf(a) == IF a = <<>> THEN <<>> ELSE Tail(a)
FirstOf(a) == IF a = <<>> THEN 0 ELSE Head(a)

RECURSIVE BigAddC(_, _, _)
BigAddC(a, b, c) ==
  IF a = <<>> /\ b = <<>>
  THEN (IF c = 0 THEN <<>> ELSE <<c>>)
  ELSE LET s == FirstOf(a) + FirstOf(b) + c
       IN  <<s % Base>> \o BigAddC(RestOf(a), RestOf(b), s \div Base)

BigAdd(a, b) == BigAddC(a, b, 0)

\* a - b, for a >= b
RECURSIVE BigSubB(_, _, _)
BigSubB(a, b, borrow) ==
  IF a = <<>>
  THEN <<>>
  ELSE LET d == Head(a) - FirstOf(b) - borrow
       IN  IF d < 0
           THEN <<d + Base>> \o BigSubB(Tail(a), RestOf(b), 1)
           ELSE <<d>> \o BigSubB(Tail(a), RestOf(b), 0)

BigSub(a, b) == BigTrim(BigSubB(a, b, 0))

\* -1, 0 or 1 as a < b, a = b, a > b; i is the limb compared next
RECURSIVE BigCmpAt(_, _, _)
BigCmpAt(a, b, i) ==
  IF i = 0 THEN 0
  ELSE IF a[i] < b[i] THEN -1
  ELSE IF a[i] > b[i] THEN 1
  ELSE BigCmpAt(a, b, i - 1)

BigCmp(a, b) ==
  IF Len(a) < Len(b) THEN -1
  ELSE IF Len(a) > Len(b) THEN 1
  ELSE BigCmpAt(a, b, Len(a))

RECURSIVE BigMulLimbC(_, _, _)
BigMulLimbC(a, d, c) ==
  IF a = <<>>
  THEN (IF c = 0 THEN <<>> ELSE <<c>>)
  ELSE LET p == Head(a) * d + c
       IN  <<p % Base>> \o BigMulLimbC(Tail(a), d, p \div Base)

BigMulLimb(a, d) == BigTrim(BigMulLimbC(a, d, 0))

RECURSIVE BigMul(_, _)
BigMul(a, b) ==
  IF a = <<>> \/ b = <<>>
  THEN <<>>
  ELSE BigTrim(BigAdd(BigMulLimb(a, Head(b)), <<0>> \o BigMul(a, Tail(b))))

\* a * 2^k
BigShl(a, k) ==
  IF a = <<>>
  THEN <<>>
  ELSE [i \in 1..(k \div LimbBits) |-> 0] \o BigMulLimb(a, 2^(k % LimbBits))

\* floor(a / d) for a limb d, from the most significant limb down, r the
\* remainder carried
RECURSIVE BigDivLimbAt(_, _, _, _)
BigDivLimbAt(a, d, i, r) ==
  IF i = 0
  THEN <<>>
  ELSE LET n == r * Base + a[i]
       IN  BigDivLimbAt(a, d, i - 1, n % d) \o <<n \div d>>

\* floor(a / 2^k)
BigShr(a, k) ==
  LET drop == k \div LimbBits
      rest == IF drop >= Len(a) THEN <<>> ELSE SubSeq(a, drop + 1, Len(a))
  IN  BigTrim(BigDivLimbAt(rest, 2^(k % LimbBits), Len(rest), 0))

BigBitLen(a) ==
  IF a = <<>> THEN 0 ELSE LimbBits * (Len(a) - 1) + IntBitLen(a[Len(a)])

BigOdd(a) == a # <<>> /\ a[1] % 2 = 1

----------------------------------------------------------------------------
(* IEEE-754 binary64 arithmetic on finite non-negative values, rounding to *)
(* nearest, ties to even.  [m, e] stands for m * 2^e; m is <<>> (zero) or  *)
(* has exactly MantBits bits.                                              *)

\* 52 stored fraction bits and the implicit leading bit
MantBits == 52 + 1
FZero == [m |-> <<>>, e |-> 0]

\* [m, e] for a mantissa q1 of MantBits or MantBits + 1 bits
FNormal(q1, e) ==
  IF BigBitLen(q1) > MantBits
  THEN [m |-> BigShr(q1, 1), e |-> e + 1]
  ELSE [m |-> q1, e |-> e]

\* q rounded up or not; c is -1, 0 or 1 as the part cut off is less than,
\* equal to or more than half a unit of q
FRoundUp(q, e, sticky, c) ==
  FNormal(IF c > 0 \/ (c = 0 /\ (sticky \/ BigOdd(q)))
          THEN BigAdd(q, <<1>>) ELSE q,
          e)

\* n with its s lowest bits cut off
FRoundCut(n, e, sticky, s) ==
  FRoundUp(BigShr(n, s), e + s, sticky,
           BigCmp(BigSub(n, BigShl(BigShr(n, s), s)), BigShl(<<1>>, s - 1)))

\* The double nearest to (n + f) * 2^e, where 0 <= f < 1 and sticky says f > 0
\* (sticky is only passed with n of more than MantBits bits)
FRound(n, e, sticky) ==
  IF n = <<>> THEN FZero
  ELSE IF BigBitLen(n) <= MantBits
  THEN [m |-> BigShl(n, MantBits - BigBitLen(n)),
        e |-> e - (MantBits - BigBitLen(n))]
  ELSE FRoundCut(n, e, sticky, BigBitLen(n) - MantBits)

FromInt(n) == FRound(BigFromInt(n), 0, FALSE)

FIsZero(x) == x.m = <<>>

FAdd(x, y) ==
  IF FIsZero(x) THEN y
  ELSE IF FIsZero(y) THEN x
  ELSE LET e == IF x.e < y.e THEN x.e ELSE y.e
       IN  FRound(BigAdd(BigShl(x.m, x.e - e), BigShl(y.m, y.e - e)), e, FALSE)

FMul(x, y) == FRound(BigMul(x.m, y.m), x.e + y.e, FALSE)

\* One more bit of a quotient: for the remainder r2 and the quotient q2,
\* both already doubled, <<quotient, remainder>>
FDivBit(r2, d, q2) ==
  IF BigCmp(r2, d) >= 0
  THEN <<BigAdd(q2, <<1>>), BigSub(r2, d)>>
  ELSE <<q2, r2>>

\* k more quotient bits of r / d, appended to q; gives <<quotient, remainder>>
RECURSIVE FDivBits(_, _, _, _)
RECURSIVE FDivNext(_, _, _)
FDivBits(r, d, q, k) ==
  IF k = 0 THEN <<q, r>>
  ELSE FDivNext(FDivBit(BigShl(r, 1), d, BigShl(q, 1)), d, k - 1)

FDivNext(qr, d, k) ==
  IF Len(qr) = 2 THEN FDivBits(qr[2], d, qr[1], k) ELSE qr

\* The bits are worked out DivChunk at a time
DivChunk == MantBits \div 3 + 2

RECURSIVE FDivChunks(_, _, _)
FDivChunks(qr, d, n) ==
  IF n = 0 \/ Len(qr) # 2 THEN qr
  ELSE FDivChunks(FDivBits(qr[2], d, qr[1], DivChunk), d, n - 1)

FDivRound(qr, e) == FRound(qr[1], e, qr[2] # <<>>)

\* x / y for y # 0: the integer part of the quotient of the mantissas and
\* 3 * DivChunk further bits of it, then rounded
FDiv(x, y) ==
  IF FIsZero(x) THEN FZero
  ELSE FDivRound(FDivChunks(FDivBit(x.m, y.m, <<>>), y.m, 3),
                 x.e - y.e - 3 * DivChunk)

\* The double a decimal literal p/q denotes (p, q naturals, q > 0)
FromRatio(p, q) == FDiv(FromInt(p), FromInt(q))

\* toFixed(1) with the digits after the first cut off instead of rounded
ToFixed1Down(x) ==
  LET t == BigMulLimb(x.m, 10)
  IN  IF FIsZero(x) THEN 0
      ELSE IF x.e >= 0 THEN BigToInt(BigShl(t, x.e))
      ELSE BigToInt(BigShr(t, -x.e))

\* Number.prototype.toFixed(1) followed by parseFloat: the integer n for
\* which n/10 is nearest to x, the larger n on a tie.  The value returned
\* to the caller is the double that the decimal n/10 denotes; it is held
\* as n, in tenths.
ToFixed1(x) ==
  LET t == BigMulLimb(x.m, 10)
  IN  IF FIsZero(x) THEN 0
      ELSE IF x.e >= 0 THEN BigToInt(BigShl(t, x.e))
      ELSE BigToInt(BigShr(BigAdd(t, BigShl(<<1>>, (-x.e) - 1)), -x.e))

----------------------------------------------------------------------------
(* JavaScript values.  A number n/10 is held as the integer n (all numbers *)
(* of the program have at most one decimal digit); a string is held as the *)
(* sequence of its character codes; an object is held with its property    *)
(* names in property order (keys) and the function from them to values.    *)

Undefined == [t |-> "undefined"]
Null == [t |-> "null"]
Num(n) == [t |-> "number", v |-> n]
Str(chars) == [t |-> "string", v |-> chars]
Obj(keys, f) == [t |-> "object", keys |-> keys, v |-> f]
Arr(items) == [t |-> "array", v |-> items]
PosInfinity == [t |-> "+Infinity"]
NegInfinity == [t |-> "-Infinity"]

\* typeof val === 'object'
TypeofObject(val) == val.t \in {"object", "array", "null"}

\* ToBoolean
Truthy(val) ==
  CASE val.t \in {"undefined", "null"} -> FALSE
    [] val.t = "number" -> val.v # 0
    [] val.t = "string" -> val.v # <<>>
    [] OTHER -> TRUE

\* rec[key] for a function rec from property names to values
Prop(rec, key) == IF key \in DOMAIN rec THEN rec[key] ELSE Undefined

\* val[key] for an object val; the arrays of the program are not indexed by
\* the keys the model uses
Get(val, key) == IF val.t = "object" THEN Prop(val.v, key) ELSE Undefined

\* The double of the number held as n
ToDouble(n) == IF n % 10 = 0 THEN FromInt(n \div 10) ELSE FromRatio(n, 10)

----------------------------------------------------------------------------
(* Category scores and weights (lib/types.ts, lib/candidateUtils.ts).      *)
(* A CategoryScores value is an object of numbers.  A CategoryWeights      *)
(* value is a function from the categories it has to weights; a weight is  *)
(* the pair <<p, q>> of the decimal p/q it is written as, and has the      *)
(* value FromRatio(p, q).                                                  *)

StdCategories ==
  <<"technicalSkills", "communicationSkills", "experience", "culturalFit">>

DEFAULT_WEIGHTS ==
  [technicalSkills     |-> <<4, 10>>,
   communicationSkills |-> <<25, 100>>,
   experience          |-> <<25, 100>>,
   culturalFit         |-> <<1, 10>>]

\* The weights written in the program and in the checked inputs
WeightLiterals ==
  {<<0, 1>>, <<1, 1>>, <<2, 1>>, <<3, 1>>, <<5, 1>>, <<8, 1>>, <<1, 2>>,
   <<1, 4>>, <<4, 10>>, <<25, 100>>, <<1, 10>>, <<1, 3>>}

\* Their values as doubles, converted once, as when the program is loaded
RECURSIVE WeightTable(_)
WeightTable(ws) ==
  IF ws = {} THEN <<>>
  ELSE LET w == CHOOSE lit \in ws : TRUE
       IN  (w :> FromRatio(w[1], w[2])) @@ WeightTable(ws \ {w})

WeightDoubles == WeightTable(WeightLiterals)

WeightValue(w) == WeightDoubles[w]

\* weights[category] with the weight 1 for a category that has none
WeightOfAbsentOne(weights, category) ==
  IF category \in DOMAIN weights THEN WeightValue(weights[category])
  ELSE FromInt(1)

\* weights[category], 0 standing for a weight that is not there (the test
\* of the program takes both for absent)
WeightOf(weights, category) ==
  IF category \in DOMAIN weights THEN WeightValue(weights[category])
  ELSE FZero

\* One turn of the loop: <<weightedScore, totalWeight>> after it, for the
\* score and the weight w of the category
ScoreStep(acc, score, w) ==
  IF ~FIsZero(w)
  THEN <<FAdd(acc[1], FMul(score, w)), FAdd(acc[2], w)>>
  ELSE acc

\* The loop of calculateOverallScore from the i-th property of scores on;
\* acc is <<weightedScore, totalWeight>>
RECURSIVE ScoreLoop(_, _, _, _)
ScoreLoop(scores, weights, i, acc) ==
  IF i > Len(scores.keys) \/ Len(acc) # 2 THEN acc
  ELSE ScoreLoop(scores, weights, i + 1,
                 ScoreStep(acc, ToDouble(scores.v[scores.keys[i]].v),
                           WeightOf(weights, scores.keys[i])))

\* The return statements without the division by the total weight
OverallOfUndivided(acc) ==
  IF FIsZero(acc[2]) THEN 0 ELSE ToFixed1(acc[1])

\* The return statements with the midpoint returned for a zero total
OverallOfMidpoint(acc) ==
  IF FIsZero(acc[2]) THEN 50 ELSE ToFixed1(FDiv(acc[1], acc[2]))

\* The return statements, for acc of the end of the loop
OverallOf(acc) ==
  IF FIsZero(acc[2]) THEN 0 ELSE ToFixed1(FDiv(acc[1], acc[2]))

\* The number returned, held in tenths as all numbers are
calculateOverallScore(scores, weights) ==
  OverallOf(ScoreLoop(scores, weights, 1, <<FZero, FZero>>))

----------------------------------------------------------------------------
(* The weighted mean in exact rational arithmetic, for comparison.         *)

RECURSIVE GCD(_, _)
GCD(a, b) == IF b = 0 THEN a ELSE GCD(b, a % b)
LCM(a, b) == (a * b) \div GCD(a, b)

\* The categories of scores that the weights have, in property order
AppliedCategories(scores, weights) ==
  SelectSeq(scores.keys, LAMBDA c : c \in DOMAIN weights)

RECURSIVE CommonDen(_, _, _)
CommonDen(cats, weights, i) ==
  IF i > Len(cats) THEN 1
  ELSE LCM(weights[cats[i]][2], CommonDen(cats, weights, i + 1))

\* den times the sum over the categories from i on of the weight, times the
\* score (in tenths) if byScore; a natural number
RECURSIVE ScaledSum(_, _, _, _, _, _)
ScaledSum(scores, cats, weights, den, byScore, i) ==
  IF i > Len(cats) THEN 0
  ELSE LET w == weights[cats[i]]
       IN  (IF byScore THEN scores.v[cats[i]].v ELSE 1) * w[1] * (den \div w[2])
           + ScaledSum(scores, cats, weights, den, byScore, i + 1)

\* num/den rounded to an integer, a half rounded away from zero
\* (num >= 0, den > 0)
RoundHalfAway(num, den) == (2 * num + den) \div (2 * den)

\* In tenths
ExactOverallScore(scores, weights) ==
  LET cats  == AppliedCategories(scores, weights)
      den   == CommonDen(cats, weights, 1)
      sum   == ScaledSum(scores, cats, weights, den, TRUE, 1)
      total == ScaledSum(scores, cats, weights, den, FALSE, 1)
  IN  IF total = 0 THEN 0 ELSE RoundHalfAway(sum, total)

----------------------------------------------------------------------------
(* Inputs of the score calculation.                                        *)

\* The largest score the form's range input allows
MaxScore == 10

CalcScoreValues == {0, 1, 7, MaxScore}

\* The scores object with the categories cats, in that order, and the
\* (whole) scores vals
MakeScores(cats, vals) ==
  Obj(cats, [c \in {cats[i] : i \in 1..Len(cats)} |->
               Num(10 * vals[CHOOSE i \in 1..Len(cats) : cats[i] = c])])

CalcCategoryLists ==
  {StdCategories,
   <<"technicalSkills", "experience">>,
   <<"culturalFit", "experience", "communicationSkills", "technicalSkills">>}

\* Scores whose weighted mean under DEFAULT_WEIGHTS, 7.35, is half-way
\* between two values of one decimal digit
HalfwayScores == MakeScores(StdCategories, <<8, 6, 7, 9>>)

CalcScoreInputs ==
  UNION {{MakeScores(cats, vals) : vals \in [1..Len(cats) -> CalcScoreValues]}
         : cats \in CalcCategoryLists}
    \cup {HalfwayScores}

StdWeights(a, b, c, d) ==
  [technicalSkills |-> a, communicationSkills |-> b,
   experience |-> c, culturalFit |-> d]

CalcWeightInputs ==
  {DEFAULT_WEIGHTS,
   StdWeights(<<1, 1>>, <<1, 1>>, <<1, 1>>, <<1, 1>>),
   StdWeights(<<8, 1>>, <<5, 1>>, <<5, 1>>, <<2, 1>>),
   StdWeights(<<0, 1>>, <<0, 1>>, <<0, 1>>, <<0, 1>>),
   StdWeights(<<1, 2>>, <<0, 1>>, <<1, 4>>, <<1, 4>>),
   [technicalSkills |-> <<3, 1>>, culturalFit |-> <<1, 1>>],
   [leadership |-> <<1, 1>>],
   <<>>}

----------------------------------------------------------------------------
(* Strings and comparisons of JavaScript.                                  *)

\* String.prototype.toLowerCase, on the codes of A..Z
ToLowerCase(chars) ==
  [i \in DOMAIN chars |->
     IF chars[i] \in 65..90 THEN chars[i] + 32 ELSE chars[i]]

\* String.prototype.includes
Includes(hay, needle) ==
  \E i \in 0..(Len(hay) - Len(needle)) :
    SubSeq(hay, i + 1, i + Len(needle)) = needle

\* s before u in the order of code units
RECURSIVE LexLess(_, _)
LexLess(s, u) ==
  IF u = <<>> THEN FALSE
  ELSE IF s = <<>> THEN TRUE
  ELSE IF Head(s) # Head(u) THEN Head(s) < Head(u)
  ELSE LexLess(Tail(s), Tail(u))

ObjectString ==   \* "[object Object]"
  <<91, 111, 98, 106, 101, 99, 116, 32, 79, 98, 106, 101, 99, 116, 93>>

\* Array.prototype.join(",") of the strings of the items (all objects here)
RECURSIVE ArrayString(_)
ArrayString(items) ==
  IF items = <<>> THEN <<>>
  ELSE IF Len(items) = 1 THEN ObjectString
  ELSE ObjectString \o <<44>> \o ArrayString(Tail(items))

\* ToPrimitive with hint number
ToPrimitive(val) ==
  CASE val.t = "object" -> Str(ObjectString)
    [] val.t = "array" -> Str(ArrayString(val.v))
    [] OTHER -> val

NaN == [t |-> "NaN"]

\* ToNumber of a primitive.  The strings of the model are made of letters
\* (and are not "Infinity"), so only the empty string is a numeral.
ToNumber(val) ==
  CASE val.t = "undefined" -> NaN
    [] val.t = "null" -> Num(0)
    [] val.t = "string" -> (IF val.v = <<>> THEN Num(0) ELSE NaN)
    [] OTHER -> val

\* x < y for numbers and infinities
NumLess(x, y) ==
  CASE x.t = "-Infinity" -> y.t # "-Infinity"
    [] x.t = "+Infinity" -> FALSE
    [] y.t = "+Infinity" -> TRUE
    [] y.t = "-Infinity" -> FALSE
    [] OTHER -> x.v < y.v

\* The relational comparison a < b: "true", "false" or "undefined"
Relational(a, b) ==
  LET pa == ToPrimitive(a)
      pb == ToPrimitive(b)
      na == ToNumber(pa)
      nb == ToNumber(pb)
  IN  IF pa.t = "string" /\ pb.t = "string"
      THEN (IF LexLess(pa.v, pb.v) THEN "true" ELSE "false")
      ELSE IF na.t = "NaN" \/ nb.t = "NaN" THEN "undefined"
      ELSE IF NumLess(na, nb) THEN "true" ELSE "false"

JSLess(a, b) == Relational(a, b) = "true"          \* a < b
JSGreater(a, b) == Relational(b, a) = "true"       \* a > b
JSLessEq(a, b) == Relational(b, a) = "false"       \* a <= b
JSGreaterEq(a, b) == Relational(a, b) = "false"    \* a >= b

----------------------------------------------------------------------------
(* The candidates collection of the document database, and its queries.    *)
(* A document is the function from its field names to values, with the     *)
(* document id as field id; a collection is the sequence of its documents  *)
(* in the order of their ids, the order a query without orderBy returns    *)
(* them in.                                                                *)

StrAll == <<65, 108, 108>>                                \* "All"
StrActive == <<65, 99, 116, 105, 118, 101>>               \* "Active"
StrInactive == <<73, 110, 97, 99, 116, 105, 118, 101>>    \* "Inactive"

\* where(field, '==', value)
Where(field, value) == [op |-> "where", field |-> field, value |-> value]
\* orderBy(field, direction)
OrderBy(field, direction) ==
  [op |-> "orderBy", field |-> field, direction |-> direction]

\* A where that looks only for the field, whatever its value
MatchesWhereAnyValue(doc, constraint) == constraint.field \in DOMAIN doc

MatchesWhere(doc, constraint) ==
  /\ constraint.field \in DOMAIN doc
  /\ doc[constraint.field].t = constraint.value.t
  /\ doc[constraint.field] = constraint.value

\* The order of field values of different types in the database
TypeRank(val) ==
  CASE val.t = "null" -> 0
    [] val.t = "number" -> 1
    [] val.t = "string" -> 2
    [] OTHER -> 3

ValueLess(a, b) ==
  IF TypeRank(a) # TypeRank(b) THEN TypeRank(a) < TypeRank(b)
  ELSE CASE a.t = "number" -> a.v < b.v
         [] a.t = "string" -> LexLess(a.v, b.v)
         [] OTHER -> FALSE

Reverse(seq) == [i \in 1..Len(seq) |-> seq[Len(seq) + 1 - i]]

\* seq with elem put in at index at
InsertAt(seq, at, elem) ==
  SubSeq(seq, 1, at - 1) \o <<elem>> \o SubSeq(seq, at, Len(seq))

\* docs (in id order) in ascending order of field, equal values in id order
RECURSIVE OrderedAsc(_, _)
OrderedAsc(docs, field) ==
  IF docs = <<>> THEN <<>>
  ELSE LET front == OrderedAsc(SubSeq(docs, 1, Len(docs) - 1), field)
           last  == docs[Len(docs)]
           before == {i \in 1..Len(front) :
                        ~ValueLess(last[field], front[i][field])}
       IN  InsertAt(front, Cardinality(before) + 1, last)

\* An orderBy: only documents that have the field are returned; the order
\* is by the field and then by document id, both in the given direction
ApplyOrderBy(docs, constraint) ==
  LET having == SelectSeq(docs, LAMBDA d : constraint.field \in DOMAIN d)
      asc == OrderedAsc(having, constraint.field)
  IN  IF constraint.direction = "asc" THEN asc ELSE Reverse(asc)

RECURSIVE ApplyConstraints(_, _, _)
ApplyConstraints(docs, constraints, i) ==
  IF i > Len(constraints) THEN docs
  ELSE LET c == constraints[i]
       IN  ApplyConstraints(
             IF c.op = "where"
             THEN SelectSeq(docs, LAMBDA d : MatchesWhere(d, c))
             ELSE ApplyOrderBy(docs, c),
             constraints, i + 1)

\* getDocs(query(candidatesRef, ...constraints))
GetDocs(docs, constraints) == ApplyConstraints(docs, constraints, 1)

----------------------------------------------------------------------------
(* getCandidates (lib/candidateUtils.ts).                                  *)
(* filterOptions is Undefined or the record of its four fields, a field    *)
(* left out being Undefined.  sortOption is Undefined or a record of field *)
(* and direction; field is held as the sequence of its parts between the   *)
(* dots, what field.split('.') gives.                                      *)

simpleSortFields == {"name", "email", "createdAt", "updatedAt"}

\* simpleSortFields.includes(sortOption.field)
IsSimpleSort(sortOption) ==
  Len(sortOption.field) = 1 /\ sortOption.field[1] \in simpleSortFields

\* filterOptions?.field
OptionalField(options, field) ==
  IF options = Undefined THEN Undefined ELSE Prop(options, field)

\* value || fallback
OrElse(value, fallback) == IF Truthy(value) THEN value ELSE fallback

\* The Candidate object made of a document; now is Date.now()
ToCandidate(doc, now) ==
  [f \in DOMAIN doc \cup {"createdAt", "updatedAt"} |->
     IF f \in {"createdAt", "updatedAt"}
     THEN OrElse(Prop(doc, f), Num(now))
     ELSE doc[f]]

\* What an expression that raises a TypeError leaves in place of a value
Thrown == [t |-> "thrown"]

\* candidate.documents.notes, which cannot be read without documents
NotesOfUnchained(candidate) ==
  LET documents == Prop(candidate, "documents")
  IN  IF documents.t \in {"undefined", "null"} THEN Thrown
      ELSE Get(documents, "notes")

\* candidate.documents?.notes
NotesOf(candidate) ==
  LET documents == Prop(candidate, "documents")
  IN  IF documents.t \in {"undefined", "null"} THEN Undefined
      ELSE Get(documents, "notes")

\* The names of the notes: (candidate.documents?.notes || []).map(n => n.name)
NoteNames(candidate) ==
  LET notes == NotesOf(candidate)
      list == IF notes # Thrown /\ Truthy(notes) /\ notes.t = "array"
              THEN notes.v ELSE <<>>
  IN  [i \in 1..Len(list) |->
         IF list[i].t \in {"undefined", "null"} THEN Thrown
         ELSE Get(list[i], "name")]

\* A search that leaves out the names of the notes
MatchesKeywordWithoutNotes(candidate, keyword) ==
  LET searchableFields ==
        SelectSeq(<<Prop(candidate, "name"), Prop(candidate, "email"),
                    Prop(candidate, "phone"), Prop(candidate, "linkedin"),
                    Prop(candidate, "github")>>,
                  Truthy)
  IN  \E i \in 1..Len(searchableFields) :
        Includes(ToLowerCase(searchableFields[i].v), keyword)

\* The predicate of the search filter, keyword being the lower-cased term
MatchesKeyword(candidate, keyword) ==
  LET searchableFields ==
        SelectSeq(<<Prop(candidate, "name"), Prop(candidate, "email"),
                    Prop(candidate, "phone"), Prop(candidate, "linkedin"),
                    Prop(candidate, "github")>> \o NoteNames(candidate),
                  LAMBDA field : field # Thrown /\ Truthy(field))
  IN  \E i \in 1..Len(searchableFields) :
        /\ searchableFields[i].t = "string"
        /\ Includes(ToLowerCase(searchableFields[i].v), keyword)

SearchFilter(candidates, searchTerm) ==
  IF Truthy(searchTerm)
  THEN SelectSeq(candidates,
                 LAMBDA c : MatchesKeyword(c, ToLowerCase(searchTerm.v)))
  ELSE candidates

\* The predicate of the search filter raises a TypeError for the candidate:
\* the notes cannot be read or mapped, or a field that is looked into
\* before any field matched has no toLowerCase
MatchThrows(candidate, keyword) ==
  LET notes == NotesOf(candidate)
      names == NoteNames(candidate)
      searchableFields ==
        SelectSeq(<<Prop(candidate, "name"), Prop(candidate, "email"),
                    Prop(candidate, "phone"), Prop(candidate, "linkedin"),
                    Prop(candidate, "github")>> \o names,
                  LAMBDA field : field # Thrown /\ Truthy(field))
  IN  \/ notes = Thrown
      \/ Truthy(notes) /\ notes.t # "array"
      \/ \E i \in 1..Len(names) : names[i] = Thrown
      \/ \E i \in 1..Len(searchableFields) :
           /\ searchableFields[i].t # "string"
           /\ \A j \in 1..(i - 1) :
                ~Includes(ToLowerCase(searchableFields[j].v), keyword)

\* The search filter raises a TypeError on one of the candidates
SearchThrows(candidates, searchTerm) ==
  /\ Truthy(searchTerm)
  /\ \/ searchTerm.t # "string"
     \/ \E i \in 1..Len(candidates) :
          MatchThrows(candidates[i], ToLowerCase(searchTerm.v))

\* A minimum that the score has to exceed
MinScoreFilterExclusive(candidates, minScore) ==
  IF minScore # Undefined
  THEN SelectSeq(candidates,
                 LAMBDA c : JSGreater(Prop(c, "overallScore"), minScore))
  ELSE candidates

MinScoreFilter(candidates, minScore) ==
  IF minScore # Undefined
  THEN SelectSeq(candidates,
                 LAMBDA c : JSGreaterEq(Prop(c, "overallScore"), minScore))
  ELSE candidates

\* A maximum that the score has to stay under
MaxScoreFilterExclusive(candidates, maxScore) ==
  IF maxScore # Undefined
  THEN SelectSeq(candidates,
                 LAMBDA c : JSLess(Prop(c, "overallScore"), maxScore))
  ELSE candidates

MaxScoreFilter(candidates, maxScore) ==
  IF maxScore # Undefined
  THEN SelectSeq(candidates,
                 LAMBDA c : JSLessEq(Prop(c, "overallScore"), maxScore))
  ELSE candidates

\* The loop over fieldParts from part i on, val being fieldA
RECURSIVE WalkPath(_, _, _)
WalkPath(val, fieldParts, i) ==
  IF i > Len(fieldParts) THEN val
  ELSE WalkPath(IF Truthy(val) /\ TypeofObject(val)
                THEN Get(val, fieldParts[i]) ELSE val,
                fieldParts, i + 1)

\* fieldA after the loop; the candidate itself is an object, so the first
\* part is always looked up
ResolveField(candidate, fieldParts) ==
  WalkPath(Prop(candidate, fieldParts[1]), fieldParts, 2)

\* fieldA after the check for undefined/null values
SortKey(candidate, sortOption) ==
  LET val == ResolveField(candidate, sortOption.field)
  IN  IF val.t \in {"undefined", "null"}
      THEN (IF sortOption.direction = "asc" THEN NegInfinity ELSE PosInfinity)
      ELSE val

\* The result of the comparison function for the values fieldA and fieldB
CompareKeys(fieldA, fieldB, direction) ==
  IF direction = "asc"
  THEN (IF JSLess(fieldA, fieldB) THEN 0 - 1
        ELSE IF JSGreater(fieldA, fieldB) THEN 1 ELSE 0)
  ELSE (IF JSGreater(fieldA, fieldB) THEN 0 - 1
        ELSE IF JSLess(fieldA, fieldB) THEN 1 ELSE 0)

\* The comparison function given to candidates.sort
CompareCandidates(a, b, sortOption) ==
  CompareKeys(SortKey(a, sortOption), SortKey(b, sortOption),
              sortOption.direction)

\* Array.prototype.sort as the engine does it for an array of fewer than 64
\* elements: the run the array begins with is made ascending, and each
\* later element is put into it by a binary search.  Indices are from 0,
\* the element of index k being arr[k + 1].

\* The index after the run that begins the array, from idx on
RECURSIVE RunEnd(_, _, _, _)
RunEnd(arr, sortOption, isDescending, idx) ==
  IF idx >= Len(arr) THEN idx
  ELSE LET order == CompareCandidates(arr[idx + 1], arr[idx], sortOption)
       IN  IF (isDescending /\ order >= 0) \/ (~isDescending /\ order < 0)
           THEN idx
           ELSE RunEnd(arr, sortOption, isDescending, idx + 1)

\* <<the length of the run, the array with the run made ascending>>, for an
\* array of at least two elements
CountAndMakeRun(arr, sortOption) ==
  LET isDescending == CompareCandidates(arr[2], arr[1], sortOption) < 0
      runLength == RunEnd(arr, sortOption, isDescending, 2)
  IN  <<runLength,
        IF isDescending
        THEN Reverse(SubSeq(arr, 1, runLength))
               \o SubSeq(arr, runLength + 1, Len(arr))
        ELSE arr>>

\* Where pivot belongs among arr[left + 1 .. right]
RECURSIVE BinarySearch(_, _, _, _, _)
BinarySearch(arr, sortOption, pivot, left, right) ==
  IF left >= right THEN left
  ELSE LET mid == left + ((right - left) \div 2)
       IN  IF CompareCandidates(pivot, arr[mid + 1], sortOption) < 0
           THEN BinarySearch(arr, sortOption, pivot, left, mid)
           ELSE BinarySearch(arr, sortOption, pivot, mid + 1, right)

\* The elements of index start and later put into the sorted part before them
RECURSIVE BinaryInsertionSort(_, _, _)
BinaryInsertionSort(arr, sortOption, start) ==
  IF start >= Len(arr) THEN arr
  ELSE LET pivot == arr[start + 1]
           left == BinarySearch(arr, sortOption, pivot, 0, start)
           moved == SubSeq(arr, 1, left) \o <<pivot>>
                      \o SubSeq(arr, left + 1, start)
                      \o SubSeq(arr, start + 2, Len(arr))
       IN  BinaryInsertionSort(moved, sortOption, start + 1)

\* candidates.sort((a, b) => ...)
SortCandidates(candidates, sortOption) ==
  IF Len(candidates) < 2 THEN candidates
  ELSE LET run == CountAndMakeRun(candidates, sortOption)
       IN  BinaryInsertionSort(run[2], sortOption, run[1])

\* Constraints in which "All" is a status like any other
QueryConstraintsAllAsStatus(filterOptions, sortOption) ==
  LET status == OptionalField(filterOptions, "status")
  IN  (IF Truthy(status)
       THEN <<Where("status", status)>> ELSE <<>>)
      \o
      (IF sortOption # Undefined
       THEN (IF IsSimpleSort(sortOption)
             THEN <<OrderBy(sortOption.field[1], sortOption.direction)>>
             ELSE <<>>)
       ELSE <<OrderBy("updatedAt", "desc")>>)

\* The constraints of the query
QueryConstraints(filterOptions, sortOption) ==
  LET status == OptionalField(filterOptions, "status")
  IN  (IF Truthy(status) /\ status # Str(StrAll)
       THEN <<Where("status", status)>> ELSE <<>>)
      \o
      (IF sortOption # Undefined
       THEN (IF IsSimpleSort(sortOption)
             THEN <<OrderBy(sortOption.field[1], sortOption.direction)>>
             ELSE <<>>)
       ELSE <<OrderBy("updatedAt", "desc")>>)

\* The candidates array when the filters have been applied, before the
\* client-side sort; now is Date.now()
FilteredCandidates(docs, filterOptions, sortOption, now) ==
  LET snapshot == GetDocs(docs, QueryConstraints(filterOptions, sortOption))
      mapped == [i \in 1..Len(snapshot) |-> ToCandidate(snapshot[i], now)]
      searched == SearchFilter(mapped, OptionalField(filterOptions, "searchTerm"))
      atLeast == MinScoreFilter(searched, OptionalField(filterOptions, "minScore"))
  IN  MaxScoreFilter(atLeast, OptionalField(filterOptions, "maxScore"))

\* The call ends in the catch block, which throws the error again
getCandidatesThrows(docs, filterOptions, sortOption, now) ==
  LET snapshot == GetDocs(docs, QueryConstraints(filterOptions, sortOption))
      mapped == [i \in 1..Len(snapshot) |-> ToCandidate(snapshot[i], now)]
  IN  SearchThrows(mapped, OptionalField(filterOptions, "searchTerm"))

\* The candidates returned for the collection docs
getCandidates(docs, filterOptions, sortOption, now) ==
  LET filtered == FilteredCandidates(docs, filterOptions, sortOption, now)
  IN  IF sortOption # Undefined /\ ~IsSimpleSort(sortOption)
      THEN SortCandidates(filtered, sortOption)
      ELSE filtered

----------------------------------------------------------------------------
(* Inputs of the queries: collections of at most MaxCandidates documents   *)
(* taken from five candidates, and the options of getCandidates.           *)

MaxCandidates == 4

\* Date.now() at the time of the query, as a number of the model
ClockNow == 900

StdScores(a, b, c, d) == MakeScores(StdCategories, <<a, b, c, d>>)

\* scores with the extension category leadership added
WithLeadership(scores, val) ==
  Obj(scores.keys \o <<"leadership">>,
      [c \in DOMAIN scores.v \cup {"leadership"} |->
         IF c = "leadership" THEN Num(10 * val) ELSE scores.v[c]])

DocumentKeys == <<"resume", "coverLetter", "notes", "transcripts">>

\* The documents object with the notes of the given names
DocumentsWithNotes(names) ==
  Obj(DocumentKeys,
      [resume |-> Null, coverLetter |-> Null, transcripts |-> Arr(<<>>),
       notes |-> Arr([i \in 1..Len(names) |->
                        Obj(<<"id", "name">>,
                            [id |-> Str(<<110, 48 + i>>),
                             name |-> Str(names[i])])])])

\* The fields every stored candidate has
BaseProfile(name, status, stars, scores, updatedAt, noteNames) ==
  [name |-> Str(name), email |-> Str(<<101>>), status |-> Str(status),
   starRating |-> Num(10 * stars), scores |-> scores,
   overallScore |-> Num(calculateOverallScore(scores, DEFAULT_WEIGHTS)),
   documents |-> DocumentsWithNotes(noteNames),
   createdAt |-> Num(100), updatedAt |-> Num(updatedAt)]

\* The profile without the listed fields
Lacking(profile, fields) == [f \in DOMAIN profile \ fields |-> profile[f]]

\* A documents object that has no notes
DocumentsWithoutNotes ==
  Obj(<<"resume", "coverLetter">>, [resume |-> Null, coverLetter |-> Null])

Profiles ==
  { \* "Al", Active, overall score 6.5, GitHub "b", no documents
    Lacking(BaseProfile(<<65, 108>>, StrActive, 3, StdScores(6, 7, 7, 6),
                        400, <<>>),
            {"documents"})
      @@ [github |-> Str(<<98>>)],
    \* "Bo", Inactive, 7.0, a note named "al"
    BaseProfile(<<66, 111>>, StrInactive, 3,
                WithLeadership(StdScores(7, 7, 7, 7), 5), 300, <<<<97, 108>>>>),
    \* "bo", Active, 8.9, GitHub "a", phone "Al"
    BaseProfile(<<98, 111>>, StrActive, 5,
                WithLeadership(StdScores(9, 9, 9, 8), 2), 300, <<>>)
      @@ [github |-> Str(<<97>>), phone |-> Str(<<65, 108>>)],
    \* "Cy", Inactive, 9.0, LinkedIn "bo"
    BaseProfile(<<67, 121>>, StrInactive, 0, StdScores(9, 9, 9, 9), 200,
                <<<<99>>>>)
      @@ [linkedin |-> Str(<<98, 111>>)],
    \* "Di", Active, 7.0, GitHub null, documents without notes
    [BaseProfile(<<68, 105>>, StrActive, 5, StdScores(7, 7, 7, 7), 400, <<>>)
       EXCEPT !.documents = DocumentsWithoutNotes]
      @@ [github |-> Null] }

\* The document of the i-th id with the fields of profile
DocOf(profile, i) == profile @@ [id |-> Str(<<99, 48 + i>>)]

\* The collections of at most MaxCandidates different candidates
Collections ==
  UNION {{[i \in 1..n |-> DocOf(ps[i], i)] :
            ps \in {qs \in [1..n -> Profiles] :
                      \A i, j \in 1..n : qs[i] = qs[j] => i = j}}
         : n \in 0..MaxCandidates}

FilterRecords ==
  [status : {Undefined, Str(StrAll), Str(StrActive), Str(StrInactive)},
   searchTerm : {Undefined, Str(<<>>), Str(<<65, 76>>)},      \* '', 'AL'
   minScore : {Undefined, Num(70)},
   maxScore : {Undefined, Num(89)}]

SortRecords(fields) == [field : fields, direction : {"asc", "desc"}]

ClientSortFields ==
  {<<"overallScore">>, <<"starRating">>, <<"scores", "leadership">>,
   <<"github">>, <<"overallScore", "x">>, <<"name", "first">>}

\* The options with which the filters are exercised
FilterInputs ==
  (FilterRecords \cup {Undefined})
    \X ({Undefined} \cup SortRecords({<<"name">>, <<"overallScore">>}))

\* The options with which the sort is exercised
SortInputs ==
  {Undefined, [status |-> Str(StrActive), searchTerm |-> Undefined,
               minScore |-> Undefined, maxScore |-> Undefined]}
    \X SortRecords(ClientSortFields \cup {<<"updatedAt">>})

----------------------------------------------------------------------------
VARIABLES
  calcScores,    \* the scores passed to calculateOverallScore
  calcWeights,   \* the weights passed to it
  calcResult,    \* what it returned, NotComputed before the call
  collection,    \* the documents of the candidates collection
  filterArg,     \* the filterOptions passed to getCandidates
  sortArg,       \* the sortOption passed to it
  queryState,    \* "idle" before the call, "done" after it returned,
                 \* "failed" after it threw
  queryFiltered, \* its candidates array when the filters have been applied
  queryResult,   \* the array it returned
  view,          \* the page shown: "list", "new", "edit" or "page"
  formData,      \* the formData of CandidateForm, NoForm when not shown
  pageCandidate, \* the candidate of CandidatePage, Null when not loaded
  aiModel,       \* the route called: "openai" or "gemini"
  aiResponse,    \* the object parsed from the text the AI returned
  routeResult,   \* the validatedResult of the route, Undefined before
  selectedCandidates, \* Home: the candidates selected for comparison
  showComparison,     \* Home: the comparison is shown
  clickedCandidate,   \* the candidate of the last click if the last action
                      \* was a click on a candidate, Null otherwise
  selectedBefore,     \* selectedCandidates before that click
  clock,         \* Date.now() of the next upload
  uploadLog,     \* the uploads made: <<documentType, id>> of each, in order
  deleteLog,     \* the ids of the documents deleted
  activeTab,     \* CandidatePage: the tab shown
  pending,       \* the handlers waiting for their updateCandidate to return
  queryLog,      \* Home: the constraints of the queries loadCandidates made
  loaded,        \* Home: its candidates, error and loading, Null before
  createArg,     \* the candidateData passed to createCandidate
  compareRequest,  \* the body of the request to a compare-candidates route
  compareResponse, \* its response and whether the AI was called, Null
                   \* before
  uploader,      \* DocumentUpload: its state, its running intervals, the
                 \* upload it awaits and the timeout it has set
  lastCall,      \* the last call of uploadCandidateDocument or
                 \* deleteCandidateDocument made on its own, or the last
                 \* update a handler of CandidatePage tried: its arguments,
                 \* what was there before it and how it ended, Null for
                 \* none
  storage        \* the paths of the files in Firebase Storage

calcVars == <<calcScores, calcWeights, calcResult>>
queryVars ==
  <<collection, filterArg, sortArg, queryState, queryFiltered,
    queryResult>>
appVars == <<view, formData, pageCandidate>>
routeVars == <<aiModel, aiResponse, routeResult>>
homeVars ==
  <<selectedCandidates, showComparison, clickedCandidate, selectedBefore>>
docVars == <<clock, uploadLog, deleteLog>>
analysisVars == <<activeTab, pending>>
moreVars ==
  <<queryLog, loaded, createArg, compareRequest, compareResponse,
    uploader, lastCall>>
auxVars ==
  <<routeVars, homeVars, docVars, analysisVars, moreVars, storage>>
vars == <<calcVars, queryVars, appVars, auxVars>>

NotComputed == 0 - 1

\* formData when no form is shown
NoForm == <<>>

CalcIdle ==
  /\ calcScores = StdScores(0, 0, 0, 0)
  /\ calcWeights = DEFAULT_WEIGHTS
  /\ calcResult = NotComputed

QueryIdle ==
  /\ collection = <<>>
  /\ filterArg = Undefined
  /\ sortArg = Undefined
  /\ queryState = "idle"
  /\ queryFiltered = <<>>
  /\ queryResult = <<>>

AppIdle ==
  /\ view = "list"
  /\ formData = NoForm
  /\ pageCandidate = Null

RouteIdle ==
  /\ aiModel = "openai"
  /\ aiResponse = <<>>
  /\ routeResult = Undefined

HomeIdle ==
  /\ selectedCandidates = <<>>
  /\ showComparison = FALSE
  /\ clickedCandidate = Null
  /\ selectedBefore = <<>>

DocIdle ==
  /\ clock = 1
  /\ uploadLog = <<>>
  /\ deleteLog = {}

AnalysisIdle ==
  /\ activeTab = "profile"
  /\ pending = {}

\* DocumentUpload when it has been mounted
UploaderMounted ==
  [isUploading |-> FALSE, progress |-> 0, error |-> Null, intervals |-> 0,
   awaiting |-> FALSE, resetDue |-> FALSE, started |-> 0]

MoreIdle ==
  /\ queryLog = <<>>
  /\ loaded = Null
  /\ createArg = <<>>
  /\ compareRequest = Undefined
  /\ compareResponse = Null
  /\ uploader = UploaderMounted
  /\ lastCall = Null

AuxIdle ==
  /\ RouteIdle
  /\ HomeIdle
  /\ DocIdle
  /\ AnalysisIdle
  /\ MoreIdle
  /\ storage = {}

----------------------------------------------------------------------------
(* The score calculation on its own.                                       *)

InitScore ==
  /\ calcScores \in CalcScoreInputs
  /\ calcWeights \in CalcWeightInputs
  /\ calcResult = NotComputed
  /\ QueryIdle
  /\ AppIdle
  /\ AuxIdle

Calculate ==
  /\ calcResult = NotComputed
  /\ calcResult' = calculateOverallScore(calcScores, calcWeights)
  /\ UNCHANGED <<calcScores, calcWeights, queryVars, appVars, auxVars>>

NextScore == Calculate

SpecScore == InitScore /\ [][NextScore]_vars

----------------------------------------------------------------------------
(* A call of getCandidates.                                                *)

InitQuery ==
  /\ collection \in Collections
  /\ \E options \in FilterInputs \cup SortInputs :
       /\ filterArg = options[1]
       /\ sortArg = options[2]
  /\ queryState = "idle"
  /\ queryFiltered = <<>>
  /\ queryResult = <<>>
  /\ CalcIdle
  /\ AuxIdle
  /\ AppIdle

GetCandidates ==
  /\ queryState = "idle"
  /\ IF getCandidatesThrows(collection, filterArg, sortArg, ClockNow)
     THEN /\ queryState' = "failed"
          /\ queryFiltered' = <<>>
          /\ queryResult' = <<>>
     ELSE /\ queryState' = "done"
          /\ queryFiltered' =
               FilteredCandidates(collection, filterArg, sortArg, ClockNow)
          /\ queryResult' =
               getCandidates(collection, filterArg, sortArg, ClockNow)
  /\ UNCHANGED <<collection, filterArg, sortArg, calcVars, appVars,
                 auxVars>>

NextQuery == GetCandidates

SpecQuery == InitQuery /\ [][NextQuery]_vars

----------------------------------------------------------------------------
(* The stored candidates and the pages that change them: CandidateForm     *)
(* (new and edit) and CandidatePage.  One page is shown at a time.  A      *)
(* top-level object is held as the function of its properties.             *)

\* {...a, ...b}
Spread(a, b) == b @@ a

\* val?.key
OptionalGet(val, key) ==
  IF val.t \in {"undefined", "null"} THEN Undefined ELSE Get(val, key)

RECURSIVE removeDeeplyUndefined(_)
removeDeeplyUndefined(val) ==
  CASE val.t = "undefined" -> Null
    [] val.t = "array" ->
         Arr([i \in DOMAIN val.v |-> removeDeeplyUndefined(val.v[i])])
    [] val.t = "object" ->
         Obj(val.keys,
             [k \in DOMAIN val.v |-> removeDeeplyUndefined(val.v[k])])
    [] OTHER -> val

\* removeDeeplyUndefined of a top-level object
RemoveUndefinedProperties(data) ==
  [k \in DOMAIN data |-> removeDeeplyUndefined(data[k])]

\* The id doc(candidatesRef) gives to a new document
NewId(docs) == Str(<<99, 48 + Len(docs) + 1>>)

HasDoc(docs, id) == \E i \in DOMAIN docs : docs[i].id = id

\* getCandidate: the candidate of the id, Null if there is none
getCandidate(docs, id, now) ==
  IF HasDoc(docs, id)
  THEN ToCandidate(docs[CHOOSE i \in DOMAIN docs : docs[i].id = id], now)
  ELSE Null

\* createCandidate: the collection with the new document
createCandidate(docs, candidateData, now) ==
  LET safeCandidate == RemoveUndefinedProperties(candidateData)
      candidateWithDefaults ==
        Spread([name |-> OrElse(Prop(safeCandidate, "name"), Str(<<>>)),
                email |-> OrElse(Prop(safeCandidate, "email"), Str(<<>>)),
                starRating |->
                  OrElse(Prop(safeCandidate, "starRating"), Num(0)),
                status |->
                  OrElse(Prop(safeCandidate, "status"), Str(StrActive)),
                scores |->
                  OrElse(Prop(safeCandidate, "scores"),
                         StdScores(0, 0, 0, 0)),
                overallScore |->
                  OrElse(Prop(safeCandidate, "overallScore"), Num(0)),
                documents |->
                  OrElse(Prop(safeCandidate, "documents"),
                         Obj(DocumentKeys,
                             [resume |-> Null, coverLetter |-> Null,
                              notes |-> Arr(<<>>),
                              transcripts |-> Arr(<<>>)]))],
               safeCandidate)
      newCandidateData ==
        Spread(candidateWithDefaults,
               [createdAt |-> Num(now), updatedAt |-> Num(now)])
  IN  Append(docs, Spread(newCandidateData, [id |-> NewId(docs)]))

\* updateCandidate on a document that exists: the collection with the
\* document updated
updateCandidate(docs, id, updates, now) ==
  LET safeUpdates == RemoveUndefinedProperties(updates)
      updateData == Spread(safeUpdates, [updatedAt |-> Num(now)])
  IN  [i \in DOMAIN docs |->
         IF docs[i].id = id THEN Spread(docs[i], updateData) ELSE docs[i]]

\* The DocumentInfo of the uploaded file
\* The path of a file of a candidate in Firebase Storage
FilePath(candidateId, documentType, fileName) ==
  <<candidateId, documentType, fileName>>

UploadedInfo(now) ==
  Obj(<<"id", "name", "url", "type", "uploadedAt">>,
      [id |-> Str(<<102>>), name |-> Str(<<114>>), url |-> Str(<<117>>),
       type |-> Str(<<112>>), uploadedAt |-> Num(now)])

\* documents with the DocumentInfo set (resume, coverLetter) or added
\* (notes, transcripts)
WithDocument(documents, documentType, documentInfo) ==
  LET keys == IF documents.t = "object" THEN documents.keys ELSE <<>>
      props == IF documents.t = "object" THEN documents.v ELSE <<>>
      current == Prop(props, documentType)
      updated == IF documentType \in {"resume", "coverLetter"}
                 THEN documentInfo
                 ELSE Arr((IF Truthy(current) THEN current.v ELSE <<>>)
                            \o <<documentInfo>>)
  IN  Obj(IF documentType \in DOMAIN props THEN keys
          ELSE Append(keys, documentType),
          Spread(props, documentType :> updated))

\* uploadCandidateDocument from the read of the candidate on: the
\* collection with the DocumentInfo recorded
RecordDocument(docs, id, documentType, documentInfo) ==
  [i \in DOMAIN docs |->
     IF docs[i].id = id
     THEN Spread(docs[i],
                 [documents |->
                    WithDocument(OrElse(Prop(docs[i], "documents"),
                                        Obj(<<>>, <<>>)),
                                 documentType, documentInfo)])
     ELSE docs[i]]

\* uploadCandidateDocument on a candidate that exists, after the upload of
\* the file: the collection with the DocumentInfo recorded
uploadCandidateDocument(docs, id, documentType, now) ==
  RecordDocument(docs, id, documentType, UploadedInfo(now))

\* splice(docIndex) without a count: the entry and all after it go
RemoveFrom(infos, documentId) ==
  LET docIndex == CHOOSE i \in DOMAIN infos :
                    /\ infos[i].v.id = documentId
                    /\ \A j \in 1..(i - 1) : infos[j].v.id # documentId
  IN  SubSeq(infos, 1, docIndex - 1)

\* The array without the first DocumentInfo of the id (findIndex, splice)
RemoveFirst(infos, documentId) ==
  LET docIndex == CHOOSE i \in DOMAIN infos :
                    /\ infos[i].v.id = documentId
                    /\ \A j \in 1..(i - 1) : infos[j].v.id # documentId
  IN  SubSeq(infos, 1, docIndex - 1) \o SubSeq(infos, docIndex + 1, Len(infos))

\* documents without the resume or cover letter, or without the note or
\* transcript of the id; Undefined where nothing is to be written
WithoutDocument(documents, documentType, documentId) ==
  IF documentType \in {"resume", "coverLetter"}
  THEN IF Truthy(Get(documents, documentType))
       THEN Obj(documents.keys, Spread(documents.v, documentType :> Null))
       ELSE Undefined
  ELSE IF /\ documentId # Undefined
          /\ Get(documents, documentType).t = "array"
          /\ \E i \in DOMAIN documents.v[documentType].v :
               documents.v[documentType].v[i].v.id = documentId
       THEN Obj(documents.keys,
                Spread(documents.v,
                       documentType :>
                         Arr(RemoveFirst(documents.v[documentType].v,
                                         documentId))))
       ELSE Undefined

\* deleteCandidateDocument on a candidate that exists: the collection
\* after it
deleteCandidateDocument(docs, id, documentType, documentId) ==
  [i \in DOMAIN docs |->
     LET documents == OrElse(Prop(docs[i], "documents"), Obj(<<>>, <<>>))
         written == WithoutDocument(documents, documentType, documentId)
     IN  IF docs[i].id = id /\ written # Undefined
         THEN Spread(docs[i], [documents |-> written])
         ELSE docs[i]]

\* What the user does with the pages
MaxStored == 1
MaxNotes == 1

FormScoreCategories == {"technicalSkills"}
FormScoreValues == {8}
RatingInputs == {4}
StatusInputs == {Str(StrActive), Str(StrInactive)}
InputChanges ==
  {<<"name", Str(<<65, 108>>)>>, <<"email", Str(<<101>>)>>}
    \cup {<<"status", status>> : status \in StatusInputs}
SuggestedScoreInputs == {StdScores(5, 5, 5, 5)}
UploadTypes == {"resume", "notes"}

\* The scores that the forms and the suggestions give rise to, and the
\* overall score of each of them
ScoreValuesUsed ==
  {0} \cup FormScoreValues
      \cup UNION {{scores.v[c].v \div 10 : c \in DOMAIN scores.v}
                  : scores \in SuggestedScoreInputs}

ScoresUsed ==
  {StdScores(a, b, c, d) :
     a \in ScoreValuesUsed, b \in ScoreValuesUsed,
     c \in ScoreValuesUsed, d \in ScoreValuesUsed}

DefaultScoreTable ==
  [scores \in ScoresUsed |-> calculateOverallScore(scores, DEFAULT_WEIGHTS)]

\* calculateOverallScore(scores, DEFAULT_WEIGHTS)
DefaultOverallScore(scores) ==
  IF scores \in ScoresUsed THEN DefaultScoreTable[scores]
  ELSE calculateOverallScore(scores, DEFAULT_WEIGHTS)

\* The formData CandidateForm starts with
FormDefaults ==
  [name |-> Str(<<>>), email |-> Str(<<>>), phone |-> Str(<<>>),
   linkedin |-> Str(<<>>), github |-> Str(<<>>), pictureUrl |-> Str(<<>>),
   starRating |-> Num(0), status |-> Str(StrActive),
   scores |-> StdScores(0, 0, 0, 0),
   documents |->
     Obj(DocumentKeys,
         [resume |-> Undefined, coverLetter |-> Undefined,
          notes |-> Arr(<<>>), transcripts |-> Arr(<<>>)])]

InitialFormData(initialData) ==
  IF initialData = Undefined THEN FormDefaults
  ELSE Spread(FormDefaults, initialData)

\* safeFormData of handleSubmit
SafeFormData(data) ==
  LET documents == Prop(data, "documents")
  IN  Spread(data,
             [documents |->
                Obj(DocumentKeys,
                    [resume |->
                       OrElse(OptionalGet(documents, "resume"), Undefined),
                     coverLetter |->
                       OrElse(OptionalGet(documents, "coverLetter"),
                              Undefined),
                     notes |->
                       OrElse(OptionalGet(documents, "notes"), Arr(<<>>)),
                     transcripts |->
                       OrElse(OptionalGet(documents, "transcripts"),
                              Arr(<<>>))])])

\* { ...scores, [category]: value }
WithScore(scores, category, value) ==
  Obj(IF category \in DOMAIN scores.v THEN scores.keys
      ELSE Append(scores.keys, category),
      Spread(scores.v, category :> Num(10 * value)))

\* The variables that these pages leave alone
restVars ==
  <<filterArg, sortArg, queryState, queryFiltered, queryResult, calcVars,
    auxVars>>

\* The same without the tab of CandidatePage
tabRest ==
  <<filterArg, sortArg, queryState, queryFiltered, queryResult, calcVars,
    routeVars, homeVars, docVars, pending, moreVars>>

FormShown == view \in {"new", "edit"}

OpenNewForm ==
  /\ view = "list"
  /\ view' = "new"
  /\ formData' = InitialFormData(Undefined)
  /\ UNCHANGED <<pageCandidate, collection, restVars>>

\* EditCandidatePage: the candidate is loaded and given to the form
OpenEditForm ==
  /\ view = "list"
  /\ \E i \in DOMAIN collection :
       LET data == getCandidate(collection, collection[i].id, ClockNow)
       IN  /\ data # Null
           /\ view' = "edit"
           /\ formData' = InitialFormData(data)
  /\ UNCHANGED <<pageCandidate, collection, restVars>>

CloseForm ==
  /\ FormShown
  /\ view' = "list"
  /\ formData' = NoForm
  /\ UNCHANGED <<pageCandidate, collection, restVars>>

HandleStarRatingChange ==
  /\ FormShown
  /\ \E rating \in RatingInputs :
       formData' = Spread(formData, [starRating |-> Num(10 * rating)])
  /\ UNCHANGED <<view, pageCandidate, collection, restVars>>

HandleInputChange ==
  /\ FormShown
  /\ \E change \in InputChanges :
       formData' = Spread(formData, change[1] :> change[2])
  /\ UNCHANGED <<view, pageCandidate, collection, restVars>>

HandleScoreChange ==
  /\ FormShown
  /\ \E category \in FormScoreCategories, value \in FormScoreValues :
       LET newScores == WithScore(formData.scores, category, value)
           overallScore == DefaultOverallScore(newScores)
       IN  formData' = Spread(formData, [scores |-> newScores,
                                         overallScore |-> Num(overallScore)])
  /\ UNCHANGED <<view, pageCandidate, collection, restVars>>

\* The form is submitted only with its required inputs filled in
HandleSubmit ==
  /\ FormShown
  /\ Truthy(formData.name) /\ Truthy(formData.email)
  /\ Truthy(formData.status)
  /\ LET timestamp == Num(ClockNow)
         safeFormData == SafeFormData(formData)
     IN  IF view = "edit" /\ Truthy(Prop(formData, "id"))
         THEN /\ HasDoc(collection, formData.id)
              /\ collection' =
                   updateCandidate(collection, formData.id,
                                   Spread(safeFormData,
                                          [updatedAt |-> timestamp]),
                                   ClockNow)
         ELSE /\ Len(collection) < MaxStored
              /\ collection' =
                   createCandidate(
                     collection,
                     Spread(safeFormData,
                            [createdAt |-> timestamp,
                             updatedAt |-> timestamp,
                             overallScore |->
                               Num(DefaultOverallScore(formData.scores))]),
                     ClockNow)
  /\ view' = "list"
  /\ formData' = NoForm
  /\ UNCHANGED <<pageCandidate, restVars>>

\* CandidatePage is opened and loads its candidate
OpenCandidatePage ==
  /\ view = "list"
  /\ \E i \in DOMAIN collection :
       pageCandidate' = getCandidate(collection, collection[i].id, ClockNow)
  /\ view' = "page"
  /\ activeTab' = "profile"
  /\ UNCHANGED <<formData, collection, tabRest, storage>>

LeaveCandidatePage ==
  /\ view = "page"
  /\ view' = "list"
  /\ pageCandidate' = Null
  /\ UNCHANGED <<formData, collection, restVars>>

PageLoaded == view = "page" /\ pageCandidate # Null

\* A handler of CandidatePage that writes updates and sets them in the
\* candidate of the page
PageUpdate(updates) ==
  /\ HasDoc(collection, pageCandidate.id)
  /\ collection' =
       updateCandidate(collection, pageCandidate.id, updates, ClockNow)
  /\ pageCandidate' = Spread(pageCandidate, updates)
  /\ UNCHANGED <<view, formData, restVars>>

HandleRatingChange ==
  /\ PageLoaded
  /\ \E rating \in RatingInputs :
       PageUpdate([starRating |-> Num(10 * rating)])

HandleStatusChange ==
  /\ PageLoaded
  /\ \E status \in StatusInputs : PageUpdate([status |-> status])

\* DocumentUpload: the file is uploaded and recorded by
\* uploadCandidateDocument, then handleDocumentUpload writes the documents
\* of the page with the DocumentInfo and shows the tab of the document
HandleDocumentUpload ==
  /\ PageLoaded
  /\ HasDoc(collection, pageCandidate.id)
  /\ \E documentType \in UploadTypes :
       LET uploaded == uploadCandidateDocument(collection, pageCandidate.id,
                                               documentType, ClockNow)
           shown == OrElse(Prop(pageCandidate, "documents"), Obj(<<>>, <<>>))
           updatedDocuments ==
             WithDocument(shown, documentType, UploadedInfo(ClockNow))
       IN  /\ documentType = "notes" =>
                Len(OrElse(Get(shown, "notes"), Arr(<<>>)).v) < MaxNotes
           /\ collection' =
                updateCandidate(uploaded, pageCandidate.id,
                                [documents |-> updatedDocuments], ClockNow)
           /\ pageCandidate' =
                Spread(pageCandidate, [documents |-> updatedDocuments])
           /\ activeTab' = documentType
           /\ storage' =
                storage \cup {FilePath(pageCandidate.id, documentType,
                                       UploadedInfo(ClockNow).v.id)}
  /\ UNCHANGED <<view, formData, tabRest>>

\* The scores an analysis suggests are written
HandleUpdateScores ==
  /\ PageLoaded
  /\ \E scores \in SuggestedScoreInputs : PageUpdate([scores |-> scores])

InitApp ==
  /\ collection = <<>>
  /\ AppIdle
  /\ filterArg = Undefined
  /\ sortArg = Undefined
  /\ queryState = "idle"
  /\ queryFiltered = <<>>
  /\ queryResult = <<>>
  /\ CalcIdle
  /\ AuxIdle

NextApp ==
  \/ OpenNewForm
  \/ OpenEditForm
  \/ CloseForm
  \/ HandleStarRatingChange
  \/ HandleInputChange
  \/ HandleScoreChange
  \/ HandleSubmit
  \/ OpenCandidatePage
  \/ LeaveCandidatePage
  \/ HandleRatingChange
  \/ HandleStatusChange
  \/ HandleDocumentUpload
  \/ HandleUpdateScores

Spec == InitApp /\ [][NextApp]_vars

----------------------------------------------------------------------------
(* The score calculation on given scores and weights, and the pages, which *)
(* call it with DEFAULT_WEIGHTS for the candidates they store.             *)

\* The call on the given scores and weights, made before a page is used
CalculateGiven == AppIdle /\ collection = <<>> /\ Calculate

\* A handler of the pages runs
PageStep == CalcIdle /\ NextApp

NextScoreApp ==
  \/ CalculateGiven
  \/ PageStep

SpecScoreApp == InitScore /\ [][NextScoreApp]_vars

----------------------------------------------------------------------------
(* The analyze-document routes: what they return for the object parsed     *)
(* from the text of the AI.                                                *)

\* validatedResult of the OpenAI route
OpenAIValidatedResult(result) ==
  [summary |-> OrElse(Prop(result, "summary"), Str(<<>>)),
   extractedSkills |-> OrElse(Prop(result, "extractedSkills"), Arr(<<>>)),
   extractedEducation |->
     OrElse(Prop(result, "extractedEducation"), Arr(<<>>)),
   extractedExperience |->
     OrElse(Prop(result, "extractedExperience"), Arr(<<>>)),
   suggestedScores |->
     OrElse(Prop(result, "suggestedScores"), StdScores(5, 5, 5, 5))]

\* validatedResult of the Gemini route
GeminiValidatedResult(resultObj) ==
  [summary |-> OrElse(Prop(resultObj, "summary"), Str(<<>>)),
   extractedSkills |-> OrElse(Prop(resultObj, "extractedSkills"), Arr(<<>>)),
   extractedEducation |->
     OrElse(Prop(resultObj, "extractedEducation"), Arr(<<>>)),
   extractedExperience |->
     OrElse(Prop(resultObj, "extractedExperience"), Arr(<<>>)),
   suggestedScores |->
     OrElse(Prop(resultObj, "suggestedScores"), StdScores(5, 5, 5, 5))]

\* The scores the AI gives
AIScoreValues == {3, 9}

\* The suggestedScores objects the AI returns: any of the four categories,
\* in their order
AISuggestedScores ==
  UNION {{MakeScores(SelectSeq(StdCategories, LAMBDA c : c \in cats), vals) :
            vals \in [1..Cardinality(cats) -> AIScoreValues]}
         : cats \in SUBSET {StdCategories[i] : i \in 1..Len(StdCategories)}}

\* The objects parsed: without suggestedScores, with null and with each of
\* the objects
AIResponses ==
  {[summary |-> Str(<<115>>)]}
    \cup {[summary |-> Str(<<115>>), suggestedScores |-> suggested] :
            suggested \in {Null} \cup AISuggestedScores}

InitRoute ==
  /\ aiModel \in {"openai", "gemini"}
  /\ aiResponse \in AIResponses
  /\ routeResult = Undefined
  /\ CalcIdle
  /\ QueryIdle
  /\ AppIdle
  /\ HomeIdle
  /\ DocIdle
  /\ AnalysisIdle
  /\ MoreIdle
  /\ storage = {}

\* POST of the route, from the parsed object on
AnalyzeDocumentRoute ==
  /\ routeResult = Undefined
  /\ routeResult' = IF aiModel = "openai"
                    THEN OpenAIValidatedResult(aiResponse)
                    ELSE GeminiValidatedResult(aiResponse)
  /\ UNCHANGED <<aiModel, aiResponse, calcVars, queryVars, appVars, homeVars,
                 docVars, analysisVars, moreVars, storage>>

NextRoute == AnalyzeDocumentRoute

SpecRoute == InitRoute /\ [][NextRoute]_vars

----------------------------------------------------------------------------
(* Home: the selection of candidates for the comparison.                   *)

\* The number of candidates that can be compared
MaxCompared == 3

\* The number of candidates the list shows
MaxListed == 5

\* The candidates the list shows
ListedCandidates ==
  {[id |-> Str(<<99, 48 + i>>), name |-> Str(<<65 + i>>)] : i \in 1..MaxListed}

\* handleCandidateSelect without the limit of the selection
handleCandidateSelectUnlimited(selected, candidate) ==
  IF \E i \in 1..Len(selected) : selected[i].id = candidate.id
  THEN SelectSeq(selected, LAMBDA c : c.id # candidate.id)
  ELSE Append(selected, candidate)

\* handleCandidateSelect: the selectedCandidates it sets, for the
\* selectedCandidates of the render
handleCandidateSelect(selected, candidate) ==
  IF \E i \in 1..Len(selected) : selected[i].id = candidate.id
  THEN SelectSeq(selected, LAMBDA c : c.id # candidate.id)
  ELSE IF Len(selected) < MaxCompared
       THEN Append(selected, candidate)
       ELSE selected

\* What Home leaves alone
homeRest ==
  <<calcVars, queryVars, appVars, routeVars, docVars, analysisVars, moreVars,
    storage>>

\* A candidate of the list is clicked
HandleCandidateSelect ==
  /\ \E candidate \in ListedCandidates :
       /\ selectedCandidates' =
            handleCandidateSelect(selectedCandidates, candidate)
       /\ clickedCandidate' = candidate
  /\ selectedBefore' = selectedCandidates
  /\ UNCHANGED <<showComparison, homeRest>>

\* Clear Selection
ClearSelection ==
  /\ selectedCandidates # <<>>
  /\ selectedCandidates' = <<>>
  /\ clickedCandidate' = Null
  /\ selectedBefore' = <<>>
  /\ UNCHANGED <<showComparison, homeRest>>

\* Compare Selected
OpenComparison ==
  /\ selectedCandidates # <<>>
  /\ showComparison' =
       IF Len(selectedCandidates) >= 2 THEN TRUE ELSE showComparison
  /\ clickedCandidate' = Null
  /\ selectedBefore' = <<>>
  /\ UNCHANGED <<selectedCandidates, homeRest>>

\* The comparison is closed
CloseComparison ==
  /\ showComparison
  /\ showComparison' = FALSE
  /\ clickedCandidate' = Null
  /\ selectedBefore' = <<>>
  /\ UNCHANGED <<selectedCandidates, homeRest>>

InitHome ==
  /\ HomeIdle
  /\ CalcIdle
  /\ QueryIdle
  /\ AppIdle
  /\ RouteIdle
  /\ DocIdle
  /\ AnalysisIdle
  /\ MoreIdle
  /\ storage = {}

NextHome ==
  \/ HandleCandidateSelect
  \/ ClearSelection
  \/ OpenComparison
  \/ CloseComparison

SpecHome == InitHome /\ [][NextHome]_vars

----------------------------------------------------------------------------
(* Home loads its candidates when it is mounted.  A query of Firestore     *)
(* fails or not as the environment has it (a missing index, the network).  *)

\* The filterOptions { status: 'Active' }
ActiveOnly ==
  [status |-> Str(StrActive), searchTerm |-> Undefined,
   minScore |-> Undefined, maxScore |-> Undefined]

\* The candidates of data whose status is 'Active', when one is not
ActiveOf(data) ==
  IF \E i \in 1..Len(data) : Prop(data[i], "status") # Str(StrActive)
  THEN SelectSeq(data, LAMBDA c : Prop(c, "status") = Str(StrActive))
  ELSE data

\* What Home shows when loadCandidates has ended
Loaded(candidates, error) ==
  [candidates |-> candidates, error |-> error, loading |-> FALSE]

\* loadCandidates; signedIn: there is a user, firstFails and secondFails:
\* the query of the first and of the second call of getCandidates fails,
\* indexError: the message of the error names an index
LoadCandidates ==
  /\ loaded = Null
  /\ \E signedIn, firstFails, secondFails, indexError \in BOOLEAN :
       LET first == QueryConstraints(Undefined, Undefined)
           second == QueryConstraints(ActiveOnly, Undefined)
       IN  IF ~signedIn
           THEN /\ loaded' = Loaded(<<>>, Null)
                /\ queryLog' = <<>>
           ELSE IF ~firstFails
           THEN /\ loaded' =
                     Loaded(ActiveOf(getCandidates(collection, Undefined,
                                                   Undefined, ClockNow)),
                            Null)
                /\ queryLog' = <<first>>
           ELSE IF ~secondFails
           THEN /\ loaded' =
                     Loaded(ActiveOf(getCandidates(collection, ActiveOnly,
                                                   Undefined, ClockNow)),
                            Null)
                /\ queryLog' = <<first, second>>
           ELSE /\ loaded' =
                     Loaded(<<>>, IF indexError THEN "index" ELSE "failed")
                /\ queryLog' = <<first, second>>
  /\ UNCHANGED <<calcVars, queryVars, appVars, routeVars, homeVars, docVars,
                 analysisVars, createArg, compareRequest, compareResponse,
                 uploader, lastCall, storage>>

InitLoad ==
  /\ collection \in Collections
  /\ filterArg = Undefined
  /\ sortArg = Undefined
  /\ queryState = "idle"
  /\ queryFiltered = <<>>
  /\ queryResult = <<>>
  /\ CalcIdle
  /\ AppIdle
  /\ AuxIdle

NextLoad == LoadCandidates

SpecLoad == InitLoad /\ [][NextLoad]_vars

----------------------------------------------------------------------------
(* A call of createCandidate on an empty collection.  Each field of the    *)
(* data is left out, undefined, null or given.                             *)

CreateFields ==
  {"name", "email", "starRating", "status", "scores", "overallScore",
   "documents"}

\* The values of the fields that are given
GivenData ==
  [name |-> Str(<<65, 108>>), email |-> Str(<<101>>),
   starRating |-> Num(30), status |-> Str(StrInactive),
   scores |-> StdScores(6, 7, 7, 6), overallScore |-> Num(65),
   documents |-> DocumentsWithNotes(<<<<99>>>>)]

\* The data in which each field is as choice has it
CreateDataOf(choice) ==
  [f \in {g \in CreateFields : choice[g] # "absent"} |->
     CASE choice[f] = "undefined" -> Undefined
       [] choice[f] = "null" -> Null
       [] OTHER -> GivenData[f]]

CreateCandidate ==
  /\ collection = <<>>
  /\ collection' = createCandidate(collection, createArg, ClockNow)
  /\ UNCHANGED <<filterArg, sortArg, queryState, queryFiltered, queryResult,
                 calcVars, appVars, routeVars, homeVars, docVars,
                 analysisVars, moreVars, storage>>

InitCreate ==
  /\ \E choice \in [CreateFields ->
                      {"absent", "undefined", "null", "given"}] :
       createArg = CreateDataOf(choice)
  /\ QueryIdle
  /\ CalcIdle
  /\ AppIdle
  /\ RouteIdle
  /\ HomeIdle
  /\ DocIdle
  /\ AnalysisIdle
  /\ queryLog = <<>>
  /\ loaded = Null
  /\ compareRequest = Undefined
  /\ compareResponse = Null
  /\ uploader = UploaderMounted
  /\ lastCall = Null
  /\ storage = {}

NextCreate == CreateCandidate

SpecCreate == InitCreate /\ [][NextCreate]_vars

----------------------------------------------------------------------------
(* The comparison of candidates: the selection of Home and the two         *)
(* compare-candidates routes, whose POST is the same but for the AI called.*)

\* A candidate as compareCandidates sends it, and one without documents
CompareCandidate ==
  Obj(<<"name", "documents", "scores">>,
      [name |-> Str(<<65, 108>>), documents |-> DocumentsWithNotes(<<>>),
       scores |-> StdScores(6, 7, 7, 6)])

CompareCandidateBare ==
  Obj(<<"name", "scores">>,
      [name |-> Str(<<66, 111>>), scores |-> StdScores(7, 7, 7, 7)])

\* The body { candidates, jobDescription } as JSON carries it: a value that
\* is undefined is left out
CompareBody(candidates, jobDescription) ==
  LET given == [candidates |-> candidates, jobDescription |-> jobDescription]
      keys == SelectSeq(<<"candidates", "jobDescription">>,
                        LAMBDA k : given[k] # Undefined)
  IN  Obj(keys, [k \in {keys[i] : i \in 1..Len(keys)} |-> given[k]])

\* The bodies of the requests: null, or an object in which candidates and
\* jobDescription are left out or of any kind
CompareBodies ==
  {Null} \cup
  { CompareBody(candidates, jobDescription) :
      candidates \in
        {Undefined, Null, Str(<<99, 99>>),
         Obj(<<"length">>, [length |-> Num(20)]),
         Arr(<<>>), Arr(<<CompareCandidate>>), Arr(<<CompareCandidateBare>>),
         Arr(<<CompareCandidate, CompareCandidate>>),
         Arr(<<CompareCandidate, CompareCandidateBare>>),
         Arr(<<CompareCandidate, CompareCandidate, CompareCandidate>>)},
      jobDescription \in {Undefined, Null, Str(<<>>), Str(<<106>>)} }

RouteResponse(status, aiCalled) == [status |-> status, aiCalled |-> aiCalled]

\* The template of candidatesFormatted reads a property of undefined
FormatThrows(candidates) ==
  \E i \in 1..Len(candidates) :
    \/ candidates[i].t \in {"undefined", "null"}
    \/ Get(candidates[i], "documents").t \in {"undefined", "null"}
    \/ Get(candidates[i], "scores").t \in {"undefined", "null"}

\* A route that takes one candidate for enough
compareCandidatesRouteOneEnough(body, aiFails) ==
  LET candidates == Get(body, "candidates")
  IN  IF body.t \in {"undefined", "null"} THEN RouteResponse(500, FALSE)
      ELSE IF ~Truthy(candidates) \/ candidates.t # "array"
              \/ Len(candidates.v) < 1
      THEN RouteResponse(400, FALSE)
      ELSE IF ~Truthy(Get(body, "jobDescription"))
      THEN RouteResponse(400, FALSE)
      ELSE IF FormatThrows(candidates.v) THEN RouteResponse(500, FALSE)
      ELSE RouteResponse(IF aiFails THEN 500 ELSE 200, TRUE)

\* POST of a compare-candidates route for the parsed body; aiFails: the
\* call of the AI throws
compareCandidatesRoute(body, aiFails) ==
  LET candidates == Get(body, "candidates")
  IN  IF body.t \in {"undefined", "null"} THEN RouteResponse(500, FALSE)
      ELSE IF ~Truthy(candidates) \/ candidates.t # "array"
              \/ Len(candidates.v) < 2
      THEN RouteResponse(400, FALSE)
      ELSE IF ~Truthy(Get(body, "jobDescription"))
      THEN RouteResponse(400, FALSE)
      ELSE IF FormatThrows(candidates.v) THEN RouteResponse(500, FALSE)
      ELSE RouteResponse(IF aiFails THEN 500 ELSE 200, TRUE)

\* A request reaches one of the two routes
CompareCandidatesRoute ==
  /\ compareResponse = Null
  /\ \E body \in CompareBodies, model \in {"openai", "gemini"},
        aiFails \in BOOLEAN :
       /\ aiModel' = model
       /\ compareRequest' = body
       /\ compareResponse' = compareCandidatesRoute(body, aiFails)
  /\ UNCHANGED <<aiResponse, routeResult, calcVars, queryVars, appVars,
                 homeVars, docVars, analysisVars, queryLog, loaded,
                 createArg, uploader, lastCall, storage>>

InitCompare == InitHome

NextCompare ==
  \/ HandleCandidateSelect
  \/ ClearSelection
  \/ OpenComparison
  \/ CloseComparison
  \/ CompareCandidatesRoute

SpecCompare == InitCompare /\ [][NextCompare]_vars

----------------------------------------------------------------------------
(* DocumentUpload.  handleFileChange starts an interval that raises the    *)
(* progress and awaits uploadCandidateDocument, which returns or throws.   *)

\* The uploads one DocumentUpload begins
MaxAttempts == 2

\* What a tick of the interval may add: Math.floor(Math.random() * 10)
ProgressSteps == {0, 4, 9}

uploaderRest ==
  <<calcVars, queryVars, appVars, routeVars, homeVars, docVars,
    analysisVars, queryLog, loaded, createArg, compareRequest,
    compareResponse, lastCall, storage>>

\* A file is chosen or dropped: handleFileChange up to its await
HandleFileChange ==
  /\ ~uploader.isUploading
  /\ uploader.started < MaxAttempts
  /\ \E file \in {"none", "tooLarge", "badType", "accepted"} :
       uploader' =
         CASE file = "none" -> uploader
           [] file = "tooLarge" -> [uploader EXCEPT !.error = "size"]
           [] file = "badType" -> [uploader EXCEPT !.error = "type"]
           [] OTHER ->
                [uploader EXCEPT !.error = Null, !.isUploading = TRUE,
                                 !.progress = 10, !.intervals = @ + 1,
                                 !.awaiting = TRUE, !.started = @ + 1]
  /\ UNCHANGED uploaderRest

\* An interval that has not been cleared fires
ProgressTick ==
  /\ uploader.intervals > 0
  /\ \E step \in ProgressSteps :
       LET newProgress == uploader.progress + step
       IN  uploader' =
             [uploader EXCEPT
                !.progress = IF newProgress >= 90 THEN 90 ELSE newProgress]
  /\ UNCHANGED uploaderRest

\* uploadCandidateDocument has returned: the interval is cleared and the
\* reset is set for later
UploadSucceeds ==
  /\ uploader.awaiting
  /\ uploader' = [uploader EXCEPT !.intervals = @ - 1, !.progress = 100,
                                  !.awaiting = FALSE, !.resetDue = TRUE]
  /\ UNCHANGED uploaderRest

\* uploadCandidateDocument has thrown: the catch block
UploadFails ==
  /\ uploader.awaiting
  /\ uploader' = [uploader EXCEPT !.error = "failed", !.isUploading = FALSE,
                                  !.progress = 0, !.awaiting = FALSE]
  /\ UNCHANGED uploaderRest

\* The timeout set after a successful upload fires
ResetAfterDelay ==
  /\ uploader.resetDue
  /\ uploader' = [uploader EXCEPT !.isUploading = FALSE, !.progress = 0,
                                  !.resetDue = FALSE]
  /\ UNCHANGED uploaderRest

InitUpload == InitHome

NextUpload ==
  \/ HandleFileChange
  \/ ProgressTick
  \/ UploadSucceeds
  \/ UploadFails
  \/ ResetAfterDelay

SpecUpload == InitUpload /\ [][NextUpload]_vars

----------------------------------------------------------------------------
(* CandidatePage: uploads of documents, which take time, and deletions.    *)
(* DocumentUpload calls uploadCandidateDocument and, when it has returned, *)
(* the handleDocumentUpload of the render in which the upload was started. *)

\* The number of uploads started
MaxUploads == 3

\* The number of uploads in progress at the same time
MaxPending == 2

DocumentTypes == {"resume", "coverLetter", "notes", "transcripts"}

\* The candidate the new-candidate form stores when only its required
\* inputs are filled in
SubmittedCandidate ==
  Spread(SafeFormData(Spread(FormDefaults,
                             [name |-> Str(<<65, 108>>),
                              email |-> Str(<<101>>)])),
         [createdAt |-> Num(ClockNow), updatedAt |-> Num(ClockNow),
          overallScore |-> Num(DefaultOverallScore(FormDefaults.scores))])

\* One candidate is stored and its page is open
PageOpened ==
  /\ collection = createCandidate(<<>>, SubmittedCandidate, ClockNow)
  /\ view = "page"
  /\ formData = NoForm
  /\ pageCandidate = getCandidate(collection, collection[1].id, ClockNow)

\* The DocumentInfo of the file whose upload started at started and ended
\* at now
DocumentInfoOf(started, now) ==
  Obj(<<"id", "name", "url", "type", "uploadedAt">>,
      [id |-> Str(<<102, 48 + started>>), name |-> Str(<<114>>),
       url |-> Str(<<117>>), type |-> Str(<<112>>),
       uploadedAt |-> Num(now)])

\* What the uploads and deletions leave alone
docRest ==
  <<view, formData, filterArg, sortArg, queryState, queryFiltered,
    queryResult, calcVars, routeVars, homeVars, moreVars>>

\* A file is chosen in DocumentUpload: handleFileChange up to its await
StartUpload ==
  /\ PageLoaded
  /\ clock <= MaxUploads
  /\ Cardinality(pending) < MaxPending
  /\ \E documentType \in DocumentTypes :
       pending' = pending \cup
                    {[handler |-> "upload", documentType |-> documentType,
                      started |-> clock, candidate |-> pageCandidate,
                      analysis |-> Undefined]}
  /\ clock' = clock + 1
  /\ UNCHANGED <<collection, pageCandidate, uploadLog, deleteLog, activeTab,
                 storage, docRest>>

\* uploadCandidateDocument returns: handleFileChange goes on and calls the
\* handleDocumentUpload it was given, which writes the documents of its
\* candidate with the DocumentInfo and shows the tab of the document
CompleteUpload ==
  /\ \E upload \in pending :
       LET documentInfo == DocumentInfoOf(upload.started, clock)
           id == upload.candidate.id
           uploaded == RecordDocument(collection, id, upload.documentType,
                                      documentInfo)
           updatedDocuments ==
             WithDocument(OrElse(Prop(upload.candidate, "documents"),
                                 Obj(<<>>, <<>>)),
                          upload.documentType, documentInfo)
       IN  /\ upload.handler = "upload"
           /\ HasDoc(collection, id)
           /\ collection' =
                updateCandidate(uploaded, id,
                                [documents |-> updatedDocuments], ClockNow)
           /\ pageCandidate' =
                Spread(upload.candidate, [documents |-> updatedDocuments])
           /\ uploadLog' =
                Append(uploadLog, <<upload.documentType, documentInfo.v.id>>)
           /\ activeTab' = upload.documentType
           /\ storage' =
                storage \cup {FilePath(id, upload.documentType,
                                       documentInfo.v.id)}
           /\ pending' = pending \ {upload}
  /\ UNCHANGED <<clock, deleteLog, docRest>>

\* deleteCandidateDocument is called for a document that is stored
DeleteDocument ==
  /\ \E i \in DOMAIN collection, documentType \in DocumentTypes :
       LET stored == Get(collection[i].documents, documentType)
       IN  \E documentId \in
               IF stored.t = "array"
               THEN {stored.v[j].v.id : j \in DOMAIN stored.v}
               ELSE IF stored.t = "object" THEN {stored.v.id} ELSE {} :
             /\ collection' =
                  deleteCandidateDocument(collection, collection[i].id,
                                          documentType, documentId)
             /\ \E storageFails \in BOOLEAN :
                  storage' =
                    IF storageFails THEN storage
                    ELSE storage \ {FilePath(collection[i].id, documentType,
                                             documentId)}
             /\ deleteLog' = deleteLog \cup {documentId}
  /\ UNCHANGED <<pageCandidate, clock, uploadLog, pending, activeTab,
                 docRest>>

InitDocuments ==
  /\ PageOpened
  /\ filterArg = Undefined
  /\ sortArg = Undefined
  /\ queryState = "idle"
  /\ queryFiltered = <<>>
  /\ queryResult = <<>>
  /\ CalcIdle
  /\ AuxIdle

NextDocuments ==
  \/ StartUpload
  \/ CompleteUpload
  \/ DeleteDocument

SpecDocuments == InitDocuments /\ [][NextDocuments]_vars

----------------------------------------------------------------------------
(* uploadCandidateDocument and deleteCandidateDocument called on their     *)
(* own, for a candidate that is stored or not, with what the last call was *)
(* given and what it found kept in lastCall.                               *)

\* The calls made one after the other
MaxStoreCalls == 3

\* An id no candidate has
MissingId == Str(<<120>>)

CandidateIds == {collection[i].id : i \in DOMAIN collection}

\* The files deleteCandidateDocument calls deleteObject for
PathsToDelete(docs, id, documentType, documentId) ==
  UNION {
    LET documents == OrElse(Prop(docs[i], "documents"), Obj(<<>>, <<>>))
        stored == Get(documents, documentType)
    IN  IF docs[i].id # id
           \/ WithoutDocument(documents, documentType, documentId)
                = Undefined
        THEN {}
        ELSE IF documentType \in {"resume", "coverLetter"}
        THEN {FilePath(id, documentType, Get(stored, "id"))}
        ELSE {FilePath(id, documentType, documentId)} : i \in DOMAIN docs }

storeRest ==
  <<filterArg, sortArg, queryState, queryFiltered, queryResult, calcVars,
    appVars, routeVars, homeVars, analysisVars, uploadLog, deleteLog,
    queryLog, loaded, createArg, compareRequest, compareResponse, uploader>>

\* uploadCandidateDocument; uploadFails: uploadBytes throws
UploadCandidateDocument ==
  /\ clock <= MaxStoreCalls
  /\ \E candidateId \in CandidateIds \cup {MissingId},
        documentType \in DocumentTypes, uploadFails \in BOOLEAN :
       LET documentInfo == DocumentInfoOf(clock, clock)
       IN  /\ storage' =
                IF uploadFails THEN storage
                ELSE storage \cup {FilePath(candidateId, documentType,
                                            documentInfo.v.id)}
           /\ collection' =
                IF uploadFails \/ ~HasDoc(collection, candidateId)
                THEN collection
                ELSE RecordDocument(collection, candidateId, documentType,
                                    documentInfo)
           /\ lastCall' =
                [fn |-> "upload", candidateId |-> candidateId,
                 documentType |-> documentType,
                 documentId |-> documentInfo.v.id, storageFails |-> uploadFails,
                 before |-> collection, files |-> storage,
                 outcome |-> IF uploadFails THEN "failed"
                             ELSE IF ~HasDoc(collection, candidateId)
                             THEN "not found" ELSE "returned"]
  /\ clock' = clock + 1
  /\ UNCHANGED storeRest

\* deleteCandidateDocument; storageFails: deleteObject throws
DeleteCandidateDocument ==
  /\ clock <= MaxStoreCalls
  /\ \E candidateId \in CandidateIds \cup {MissingId},
        documentType \in DocumentTypes,
        documentId \in {Undefined, MissingId}
                         \cup {path[3] : path \in storage},
        storageFails \in BOOLEAN :
       /\ collection' =
            deleteCandidateDocument(collection, candidateId, documentType,
                                    documentId)
       /\ storage' =
            IF storageFails THEN storage
            ELSE storage \ PathsToDelete(collection, candidateId,
                                         documentType, documentId)
       /\ lastCall' =
            [fn |-> "delete", candidateId |-> candidateId,
             documentType |-> documentType, documentId |-> documentId,
             storageFails |-> storageFails, before |-> collection,
             files |-> storage,
             outcome |-> IF HasDoc(collection, candidateId) THEN "returned"
                         ELSE "not found"]
  /\ clock' = clock + 1
  /\ UNCHANGED storeRest

InitStore ==
  /\ collection = createCandidate(<<>>, SubmittedCandidate, ClockNow)
  /\ filterArg = Undefined
  /\ sortArg = Undefined
  /\ queryState = "idle"
  /\ queryFiltered = <<>>
  /\ queryResult = <<>>
  /\ CalcIdle
  /\ AppIdle
  /\ AuxIdle

NextStore ==
  \/ UploadCandidateDocument
  \/ DeleteCandidateDocument

SpecStore == InitStore /\ [][NextStore]_vars

----------------------------------------------------------------------------
(* The handlers of CandidatePage when updateCandidate may throw: because   *)
(* updateDoc fails, or because the candidate cannot be read back after it. *)

UpdateOutcomes == {"returned", "write failed", "read failed"}

\* setCandidate before the await: the candidate is set whether the update
\* is stored or not
AfterUpdateOptimistic(candidate, updates, outcome) ==
  Spread(candidate, updates)

\* The candidate of the page after await updateCandidate(id, updates) and
\* setCandidate({ ...candidate, ...updates }), which a throw skips
AfterUpdate(candidate, updates, outcome) ==
  IF outcome = "returned" THEN Spread(candidate, updates) ELSE candidate

persistRest ==
  <<view, formData, filterArg, sortArg, queryState, queryFiltered,
    queryResult, calcVars, routeVars, homeVars, uploadLog, deleteLog,
    pending, queryLog, loaded, createArg, compareRequest, compareResponse,
    uploader>>

\* A handler tries the updates on the store docs; clock counts the tries
TryUpdate(handler, docs, updates, outcome) ==
  /\ clock <= MaxStoreCalls
  /\ clock' = clock + 1
  /\ collection' =
       IF outcome = "write failed" THEN docs
       ELSE updateCandidate(docs, pageCandidate.id, updates, ClockNow)
  /\ pageCandidate' = AfterUpdate(pageCandidate, updates, outcome)
  /\ lastCall' = [fn |-> handler, updates |-> updates,
                  before |-> pageCandidate, outcome |-> outcome]

TryRatingChange ==
  /\ PageLoaded
  /\ HasDoc(collection, pageCandidate.id)
  /\ \E rating \in RatingInputs, outcome \in UpdateOutcomes :
       TryUpdate("handleRatingChange", collection,
                 [starRating |-> Num(10 * rating)], outcome)
  /\ UNCHANGED <<activeTab, storage, persistRest>>

TryStatusChange ==
  /\ PageLoaded
  /\ HasDoc(collection, pageCandidate.id)
  /\ \E status \in StatusInputs, outcome \in UpdateOutcomes :
       TryUpdate("handleStatusChange", collection, [status |-> status],
                 outcome)
  /\ UNCHANGED <<activeTab, storage, persistRest>>

TryUpdateScores ==
  /\ PageLoaded
  /\ HasDoc(collection, pageCandidate.id)
  /\ \E scores \in SuggestedScoreInputs, outcome \in UpdateOutcomes :
       TryUpdate("handleUpdateScores", collection, [scores |-> scores],
                 outcome)
  /\ UNCHANGED <<activeTab, storage, persistRest>>

\* DocumentUpload has uploaded and recorded a file and calls
\* handleDocumentUpload
TryDocumentUpload ==
  /\ PageLoaded
  /\ HasDoc(collection, pageCandidate.id)
  /\ \E documentType \in UploadTypes, outcome \in UpdateOutcomes :
       LET uploaded == uploadCandidateDocument(collection, pageCandidate.id,
                                               documentType, ClockNow)
           shown == OrElse(Prop(pageCandidate, "documents"), Obj(<<>>, <<>>))
           updatedDocuments ==
             WithDocument(shown, documentType, UploadedInfo(ClockNow))
       IN  /\ documentType = "notes" =>
                Len(OrElse(Get(shown, "notes"), Arr(<<>>)).v) < MaxNotes
           /\ TryUpdate("handleDocumentUpload", uploaded,
                        [documents |-> updatedDocuments], outcome)
           /\ activeTab' =
                IF outcome = "returned" THEN documentType ELSE activeTab
           /\ storage' =
                storage \cup {FilePath(pageCandidate.id, documentType,
                                       UploadedInfo(ClockNow).v.id)}
  /\ UNCHANGED persistRest

InitPersist == InitDocuments

NextPersist ==
  \/ TryRatingChange
  \/ TryStatusChange
  \/ TryUpdateScores
  \/ TryDocumentUpload

SpecPersist == InitPersist /\ [][NextPersist]_vars

----------------------------------------------------------------------------
(* The analysis of a document of CandidatePage.  While analyzeDocument is  *)
(* awaited the page stays in use.  DocumentAnalysis then calls             *)
(* handleAnalysisComplete and, for a resume or a cover letter,             *)
(* handleUpdateScores, without awaiting either: both run up to their await *)
(* of updateCandidate with the candidate of the render of the click, and   *)
(* each goes on to setCandidate when its own write has returned.           *)

Tabs == {"profile", "resume", "coverLetter", "notes", "transcripts"}

\* The scores an analysis may suggest
AnalysisScoreInputs == {StdScores(9, 8, 7, 6), StdScores(5, 5, 5, 5)}

\* The AIAnalysis analyzeDocument returns at the time now
AnalysisOf(scores, now) ==
  Obj(<<"summary", "suggestedScores", "model", "generatedAt">>,
      [summary |-> Str(<<115>>), suggestedScores |-> scores,
       model |-> Str(<<111>>), generatedAt |-> Num(now)])

\* { ...obj, [key]: value }
SetProperty(obj, key, value) ==
  Obj(IF key \in DOMAIN obj.v THEN obj.keys ELSE Append(obj.keys, key),
      Spread(obj.v, key :> value))

\* The first index of the array whose item has the id, 0 for none
FindIndexOf(items, documentId) ==
  IF \E k \in 1..Len(items) : Get(items[k], "id") = documentId
  THEN CHOOSE k \in 1..Len(items) :
         /\ Get(items[k], "id") = documentId
         /\ \A j \in 1..(k - 1) : Get(items[j], "id") # documentId
  ELSE 0

\* updatedDocuments of handleAnalysisComplete: the documents with the
\* analysis set in the document of the tab that has the id
WithAnalysis(documents, tab, documentId, analysis) ==
  LET single == Get(documents, tab)
      index == IF single.t = "array" THEN FindIndexOf(single.v, documentId)
               ELSE 0
  IN  IF tab \in {"resume", "coverLetter"}
      THEN IF Get(single, "id") = documentId
           THEN SetProperty(documents, tab,
                            SetProperty(single, "aiAnalysis", analysis))
           ELSE documents
      ELSE IF tab \in {"notes", "transcripts"} /\ index > 0
      THEN SetProperty(documents, tab,
                       Arr([single.v EXCEPT
                              ![index] = SetProperty(single.v[index],
                                                     "aiAnalysis",
                                                     analysis)]))
      ELSE documents

\* What the analysis of a document leaves alone
analysisRest ==
  <<view, formData, filterArg, sortArg, queryState, queryFiltered,
    queryResult, calcVars, routeVars, homeVars, uploadLog, deleteLog,
    moreVars, storage>>

\* A tab of CandidatePage is clicked
SetActiveTab ==
  /\ PageLoaded
  /\ \E tab \in Tabs \ {activeTab} : activeTab' = tab
  /\ UNCHANGED <<collection, pageCandidate, clock, pending, analysisRest>>

NoUploadPending == \A call \in pending : call.handler # "upload"

\* A file is chosen while no other upload is in progress
UploadOne == NoUploadPending /\ StartUpload

\* The rating or the status is changed while no upload is in progress
RatingChanged == NoUploadPending /\ HandleRatingChange

StatusChanged == NoUploadPending /\ HandleStatusChange

\* An Analyze button of the DocumentAnalysis of the tab is clicked:
\* analyzeWithModel runs up to its await, with the handlers the render
\* gave it, which hold the candidate and the tab of that render
StartAnalysis ==
  /\ PageLoaded
  /\ clock <= MaxUploads
  /\ Cardinality(pending) < MaxPending
  /\ \A call \in pending : call.handler = "upload"
  /\ activeTab \in {"resume", "coverLetter"}
  /\ Truthy(Get(OrElse(Prop(pageCandidate, "documents"), Obj(<<>>, <<>>)),
                activeTab))
  /\ pending' = pending \cup
                  {[handler |-> "analyze", documentType |-> activeTab,
                    started |-> clock, candidate |-> pageCandidate,
                    analysis |-> Undefined]}
  /\ UNCHANGED <<collection, pageCandidate, clock, activeTab, analysisRest>>

\* analyzeDocument has returned: handleAnalysisComplete and
\* handleUpdateScores are called one after the other, each issues its
\* write and waits
AnalysisCompletes ==
  /\ \E flight \in pending, scores \in AnalysisScoreInputs :
       LET shown == OrElse(Prop(flight.candidate, "documents"),
                           Obj(<<>>, <<>>))
           analysis == AnalysisOf(scores, clock)
           updatedDocuments ==
             WithAnalysis(shown, flight.documentType,
                          Get(Get(shown, flight.documentType), "id"),
                          analysis)
           written ==
             updateCandidate(collection, flight.candidate.id,
                             [documents |-> updatedDocuments], ClockNow)
           call == [flight EXCEPT !.analysis = analysis]
       IN  /\ flight.handler = "analyze"
           /\ HasDoc(collection, flight.candidate.id)
           /\ IF Truthy(Get(analysis, "suggestedScores"))
              THEN /\ collection' =
                        updateCandidate(written, flight.candidate.id,
                                        [scores |-> scores], ClockNow)
                   /\ pending' =
                        (pending \ {flight}) \cup
                          {[call EXCEPT !.handler = "analysis"],
                           [call EXCEPT !.handler = "scores"]}
              ELSE /\ collection' = written
                   /\ pending' =
                        (pending \ {flight}) \cup
                          {[call EXCEPT !.handler = "analysis"]}
  /\ clock' = clock + 1
  /\ UNCHANGED <<pageCandidate, activeTab, analysisRest>>

\* The write of handleAnalysisComplete has returned: setCandidate
FinishAnalysisComplete ==
  /\ PageLoaded
  /\ \E call \in pending :
       LET shown == OrElse(Prop(call.candidate, "documents"),
                           Obj(<<>>, <<>>))
       IN  /\ call.handler = "analysis"
           /\ pageCandidate' =
                Spread(call.candidate,
                       [documents |->
                          WithAnalysis(shown, call.documentType,
                                       Get(Get(shown, call.documentType),
                                           "id"),
                                       call.analysis)])
           /\ pending' = pending \ {call}
  /\ UNCHANGED <<collection, clock, activeTab, analysisRest>>

\* The write of handleUpdateScores has returned: setCandidate
FinishUpdateScores ==
  /\ PageLoaded
  /\ \E call \in pending :
       /\ call.handler = "scores"
       /\ pageCandidate' =
            Spread(call.candidate,
                   [scores |-> Get(call.analysis, "suggestedScores")])
       /\ pending' = pending \ {call}
  /\ UNCHANGED <<collection, clock, activeTab, analysisRest>>

InitAnalysis == InitDocuments

NextAnalysis ==
  \/ SetActiveTab
  \/ UploadOne
  \/ CompleteUpload
  \/ RatingChanged
  \/ StatusChanged
  \/ StartAnalysis
  \/ AnalysisCompletes
  \/ FinishAnalysisComplete
  \/ FinishUpdateScores

SpecAnalysis == InitAnalysis /\ [][NextAnalysis]_vars

----------------------------------------------------------------------------
(* What the score calculation, the stored candidates, the filters and the  *)
(* sort are required to do.                                                *)

QueryDone == queryState = "done"

\* The value of the filter field, Undefined when it is left out
Given(field) == OptionalField(filterArg, field)

\* filterArg with the field left out
Without(field) ==
  IF filterArg = Undefined THEN Undefined
  ELSE [filterArg EXCEPT ![field] = Undefined]

IdsOf(seq) == {seq[i].id : i \in 1..Len(seq)}

Range(seq) == {seq[i] : i \in 1..Len(seq)}

\* The two arrays hold the same candidates, each once
SameCandidates(seq, other) ==
  /\ Len(seq) = Len(other)
  /\ Cardinality(IdsOf(seq)) = Len(seq)
  /\ Range(seq) = Range(other)

\* The candidates of the collection in the order of the query, no filter
\* applied
Unfiltered == FilteredCandidates(collection, Undefined, sortArg, ClockNow)

StatusGiven == Given("status") \notin {Undefined, Str(<<>>), Str(StrAll)}
SearchGiven == Given("searchTerm") \notin {Undefined, Str(<<>>)}
MinGiven == Given("minScore") # Undefined
MaxGiven == Given("maxScore") # Undefined

StatusAccepts(c) == StatusGiven => c.status = Given("status")

\* The strings the search looks into
SearchedStrings(c) ==
  {c[f].v : f \in {g \in {"name", "email", "phone", "linkedin", "github"}
                            \cap DOMAIN c : c[g].t = "string"}}
    \cup (IF "documents" \in DOMAIN c /\ c.documents.t = "object"
             /\ "notes" \in DOMAIN c.documents.v
          THEN {c.documents.v.notes.v[i].v.name.v :
                  i \in 1..Len(c.documents.v.notes.v)}
          ELSE {})

SearchAccepts(c) ==
  SearchGiven =>
    \E str \in SearchedStrings(c) :
      Includes(ToLowerCase(str), ToLowerCase(Given("searchTerm").v))

ScoreAccepts(c) ==
  /\ MinGiven => c.overallScore.v >= Given("minScore").v
  /\ MaxGiven => c.overallScore.v <= Given("maxScore").v

ClientSorted == sortArg # Undefined /\ ~IsSimpleSort(sortArg)

\* The value at the path of the sort field, Undefined where the path does
\* not lead to a value
RECURSIVE ValueAtPath(_, _, _)
ValueAtPath(val, fieldParts, i) ==
  IF i > Len(fieldParts) THEN val
  ELSE ValueAtPath(Get(val, fieldParts[i]), fieldParts, i + 1)

ValueOf(c) == ValueAtPath(Prop(c, sortArg.field[1]), sortArg.field, 2)

Missing(c) == ValueOf(c).t \in {"undefined", "null"}

\* The position of the candidate in the array
PositionIn(seq, c) == CHOOSE i \in 1..Len(seq) : seq[i].id = c.id

\* x before y in the order of the values: numbers by size, strings by
\* their characters
ValueBefore(x, y) ==
  IF x.t = "number" /\ y.t = "number" THEN x.v < y.v
  ELSE IF x.t = "string" /\ y.t = "string" THEN LexLess(x.v, y.v)
  ELSE FALSE

(* C1: for all scores and weights calculateOverallScore returns 0 when the *)
(* total applied weight is zero, and otherwise the weighted mean of the    *)
(* categories present in both maps, rounded to one decimal digit with a    *)
(* half rounded away from zero.                                            *)
C1_RoundedWeightedMean ==
  calcResult # NotComputed =>
    calcResult = ExactOverallScore(calcScores, calcWeights)

(* C2: the overallScore of every stored candidate is the result of       *)
(* calculateOverallScore for its scores and DEFAULT_WEIGHTS.               *)
C2_OverallScoreConsistent ==
  \A i \in DOMAIN collection :
    collection[i].overallScore =
      Num(calculateOverallScore(collection[i].scores, DEFAULT_WEIGHTS))

(* C3: with a status other than "All" in the filter, the candidates kept   *)
(* are exactly those of the given status among the candidates the same     *)
(* call keeps without the status filter, in the same relative order, and   *)
(* the call returns them and no others.                                    *)
C3_StatusFilter ==
  QueryDone /\ StatusGiven =>
    /\ queryFiltered =
         SelectSeq(FilteredCandidates(collection, Without("status"), sortArg,
                                      ClockNow),
                   LAMBDA c : c.status = Given("status"))
    /\ SameCandidates(queryResult, queryFiltered)

\* C3: the status filter alone kept two Active candidates in their order
\* and removed an Inactive one
C3_Witness ==
  /\ QueryDone
  /\ Given("status") = Str(StrActive)
  /\ ~SearchGiven /\ ~MinGiven /\ ~MaxGiven
  /\ Len(queryResult) = 2
  /\ \E i \in 1..Len(collection) : collection[i].status = Str(StrInactive)

(* C4: after a sort by a field that is not one of the simple fields, in    *)
(* either direction, no candidate without a value at the path comes        *)
(* before a candidate with a value.                                        *)
C4_MissingLast ==
  QueryDone /\ ClientSorted =>
    \A i, j \in 1..Len(queryResult) :
      i < j => ~(Missing(queryResult[i]) /\ ~Missing(queryResult[j]))

(* C5: the candidates kept with a minimum and/or a maximum score are       *)
(* exactly those whose overallScore is >= the minimum (if given) and <=    *)
(* the maximum (if given), among the candidates the same call keeps        *)
(* without the two bounds.                                                 *)
C5_ScoreBounds ==
  QueryDone /\ (MinGiven \/ MaxGiven) =>
    /\ queryFiltered =
         SelectSeq(FilteredCandidates(
                     collection,
                     IF filterArg = Undefined THEN Undefined
                     ELSE [filterArg EXCEPT !.minScore = Undefined,
                                            !.maxScore = Undefined],
                     sortArg, ClockNow),
                   ScoreAccepts)
    /\ SameCandidates(queryResult, queryFiltered)

\* C5: of the scores 6.5, 7.0, 8.9 and 9.0, minimum 7.0 and maximum 8.9
\* kept exactly 7.0 and 8.9
C5_Witness ==
  /\ QueryDone
  /\ Given("minScore") = Num(70) /\ Given("maxScore") = Num(89)
  /\ ~StatusGiven /\ ~SearchGiven
  /\ {collection[i].overallScore.v : i \in 1..Len(collection)}
       = {65, 70, 89, 90}
  /\ {queryResult[i].overallScore.v : i \in 1..Len(queryResult)} = {70, 89}

(* C6: with a search term, a candidate is kept if and only if the          *)
(* lower-cased term is contained in the lower-cased name, email, phone,    *)
(* LinkedIn, GitHub or name of a note of the candidate.                    *)
C6_Search ==
  QueryDone /\ SearchGiven =>
    /\ queryFiltered =
         SelectSeq(FilteredCandidates(collection, Without("searchTerm"),
                                      sortArg, ClockNow),
                   SearchAccepts)
    /\ SameCandidates(queryResult, queryFiltered)

\* C6: the term "AL" kept a candidate named "Al" and one that only has a
\* note named "al", and removed a candidate
C6_Witness ==
  /\ QueryDone
  /\ Given("searchTerm") = Str(<<65, 76>>)
  /\ \E i, j \in 1..Len(queryResult) :
       /\ queryResult[i].name = Str(<<65, 108>>)
       /\ queryResult[j].name = Str(<<66, 111>>)
  /\ Len(queryResult) < Len(Unfiltered)

(* C7: a candidate on which the path of the sort field does not lead to a  *)
(* value, also where the path goes on after a number or a string, is       *)
(* compared as a candidate without a value.                                *)
C7_UnresolvedIsMissing ==
  QueryDone /\ ClientSorted =>
    \A i, j \in 1..Len(queryFiltered) :
      LET keyOf(c) == IF Missing(c)
                      THEN (IF sortArg.direction = "asc"
                            THEN NegInfinity ELSE PosInfinity)
                      ELSE ValueOf(c)
      IN  CompareCandidates(queryFiltered[i], queryFiltered[j], sortArg)
            = CompareKeys(keyOf(queryFiltered[i]), keyOf(queryFiltered[j]),
                          sortArg.direction)

\* The stages of the filtering, each applied to an array of candidates
StatusStage(seq) ==
  GetDocs(seq, SelectSeq(QueryConstraints(filterArg, Undefined),
                         LAMBDA q : q.op = "where"))

SearchStage(seq) == SearchFilter(seq, Given("searchTerm"))

ScoreStage(seq) ==
  MaxScoreFilter(MinScoreFilter(seq, Given("minScore")), Given("maxScore"))

(* C8: the candidates kept are the same in each of the six orders in which *)
(* the status, search and score filters can be applied, and are the        *)
(* candidates that satisfy each of the three filters.                      *)
C8_FiltersIndependent ==
  QueryDone =>
    /\ queryFiltered = ScoreStage(SearchStage(StatusStage(Unfiltered)))
    /\ queryFiltered = SearchStage(ScoreStage(StatusStage(Unfiltered)))
    /\ queryFiltered = ScoreStage(StatusStage(SearchStage(Unfiltered)))
    /\ queryFiltered = StatusStage(ScoreStage(SearchStage(Unfiltered)))
    /\ queryFiltered = SearchStage(StatusStage(ScoreStage(Unfiltered)))
    /\ queryFiltered = StatusStage(SearchStage(ScoreStage(Unfiltered)))
    /\ queryFiltered =
         SelectSeq(Unfiltered,
                   LAMBDA c : StatusAccepts(c) /\ SearchAccepts(c)
                                /\ ScoreAccepts(c))
    /\ SameCandidates(queryResult, queryFiltered)

\* C8: the three filters were given together, each of them removes a
\* candidate that the other two keep, and a candidate was returned
C8_Witness ==
  /\ QueryDone
  /\ StatusGiven /\ SearchGiven /\ MinGiven /\ MaxGiven
  /\ queryResult # <<>>
  /\ \E c \in Range(Unfiltered) :
       ~StatusAccepts(c) /\ SearchAccepts(c) /\ ScoreAccepts(c)
  /\ \E c \in Range(Unfiltered) :
       StatusAccepts(c) /\ ~SearchAccepts(c) /\ ScoreAccepts(c)
  /\ \E c \in Range(Unfiltered) :
       StatusAccepts(c) /\ SearchAccepts(c) /\ ~ScoreAccepts(c)

\* No field of the filter imposes a constraint
NoConstraint ==
  /\ Given("status") \in {Undefined, Str(StrAll), Str(<<>>)}
  /\ Given("searchTerm") \in {Undefined, Str(<<>>)}
  /\ ~MinGiven /\ ~MaxGiven

(* C9: with no status or status "All", no or an empty search term and no   *)
(* score bounds, every candidate of the collection is returned; and a      *)
(* call returns no candidate that the same call with one of the filter     *)
(* fields left out does not return.                                        *)
C9_OmittedIsNoConstraint ==
  QueryDone =>
    /\ NoConstraint =>
         /\ IdsOf(queryResult) = IdsOf(collection)
         /\ Len(queryResult) = Len(collection)
    /\ \A field \in {"status", "searchTerm", "minScore", "maxScore"} :
         IdsOf(queryResult)
           \subseteq IdsOf(getCandidates(collection, Without(field), sortArg,
                                         ClockNow))
    /\ filterArg # Undefined =>
         \A field \in {"status", "searchTerm", "minScore", "maxScore"} :
           Given(field) = Undefined =>
             queryResult =
               getCandidates(collection,
                             [f \in DOMAIN filterArg \ {field} |->
                                filterArg[f]],
                             sortArg, ClockNow)

\* C9: status "All" and an empty search term were given without score
\* bounds, and all the candidates, Active and Inactive ones, were returned
C9_Witness ==
  /\ QueryDone
  /\ Given("status") = Str(StrAll)
  /\ Given("searchTerm") = Str(<<>>)
  /\ ~MinGiven /\ ~MaxGiven
  /\ Len(queryResult) = Len(collection)
  /\ \E i, j \in 1..Len(queryResult) :
       /\ queryResult[i].status = Str(StrActive)
       /\ queryResult[j].status = Str(StrInactive)

\* The value the sort has for the candidate
SortValue(c) == ResolveField(c, sortArg.field)

HasValue(c) == SortValue(c).t \notin {"undefined", "null"}

(* C10: after a sort by a field that is not one of the simple fields, the  *)
(* values of the candidates that have one never decrease along the result  *)
(* (ascending) or never increase (descending), and candidates whose values *)
(* are equal are in the order they had before the sort.                    *)
C10_StableDirectedSort ==
  QueryDone /\ ClientSorted =>
    \A i, j \in 1..Len(queryResult) :
      i < j =>
        LET first == queryResult[i]
            second == queryResult[j]
        IN  /\ HasValue(first) /\ HasValue(second) =>
                 IF sortArg.direction = "asc"
                 THEN ~ValueBefore(SortValue(second), SortValue(first))
                 ELSE ~ValueBefore(SortValue(first), SortValue(second))
            /\ SortValue(first) = SortValue(second) =>
                 PositionIn(queryFiltered, first)
                   < PositionIn(queryFiltered, second)

(* C11: for the scores 8, 6, 7, 9 and the weights 0.4, 0.25, 0.25, 0.1 the *)
(* weighted mean is exactly 7.35, and calculateOverallScore returns 7.4.   *)
C11_HalfwayExample ==
  /\ calcScores = HalfwayScores
  /\ calcWeights = DEFAULT_WEIGHTS
  /\ calcResult # NotComputed
  =>
  /\ calcResult = 74
  /\ LET den == CommonDen(StdCategories, DEFAULT_WEIGHTS, 1)
     IN  100 * ScaledSum(HalfwayScores, StdCategories, DEFAULT_WEIGHTS, den,
                         TRUE, 1)
           = 7350 * ScaledSum(HalfwayScores, StdCategories, DEFAULT_WEIGHTS,
                              den, FALSE, 1)

\* C11: the call with these scores and weights has returned
C11_Witness ==
  /\ calcScores = HalfwayScores
  /\ calcWeights = DEFAULT_WEIGHTS
  /\ calcResult # NotComputed

\* No category of the scores has a weight other than zero
NoWeightApplies(scores, weights) ==
  \A i \in 1..Len(scores.keys) :
    scores.keys[i] \in DOMAIN weights => weights[scores.keys[i]][1] = 0

(* C12: calculateOverallScore returns a number for all scores and weights, *)
(* and returns 0 when the weights are empty, when they are all zero and    *)
(* when no category of the scores has a weight.                            *)
C12_ZeroWithoutWeights ==
  calcResult # NotComputed =>
    /\ calcResult \in Nat
    /\ NoWeightApplies(calcScores, calcWeights) => calcResult = 0

\* C12: the call returned 0 for scores that are not all zero, with empty
\* weights
C12_Witness ==
  /\ calcResult = 0
  /\ calcWeights = <<>>
  /\ \E c \in DOMAIN calcScores.v : calcScores.v[c].v > 0

\* Every score of the object is a whole number from 0 to MaxScore
ScoresInRange(scores) ==
  \A c \in DOMAIN scores.v :
    scores.v[c].v % 10 = 0 /\ scores.v[c].v \in 0..(10 * MaxScore)

(* C13: with every score a whole number from 0 to 10 and no weight         *)
(* negative, the number calculateOverallScore returns is between 0 and 10, *)
(* and so is the overallScore of every stored candidate.                   *)
C13_OverallScoreInRange ==
  /\ calcResult # NotComputed /\ ScoresInRange(calcScores) =>
       calcResult \in 0..(10 * MaxScore)
  /\ \A i \in DOMAIN collection :
       ScoresInRange(collection[i].scores) =>
         /\ collection[i].overallScore.t = "number"
         /\ collection[i].overallScore.v \in 0..(10 * MaxScore)

\* C13: a candidate is stored with a score of 8 and an overall score of
\* 3.2
C13_Witness ==
  /\ \E i \in DOMAIN collection :
       /\ collection[i].scores.v.technicalSkills.v = 80
       /\ collection[i].overallScore.v = 32

\* The factors the weights are scaled by
ScaleFactors == {2, 4, 20}

\* The literal p/q in lowest terms
Reduced(p, q) == <<p \div GCD(p, q), q \div GCD(p, q)>>

\* The weights, each multiplied by k
ScaledWeights(weights, k) ==
  [c \in DOMAIN weights |-> Reduced(k * weights[c][1], weights[c][2])]

(* C14: calculateOverallScore returns the same number for the weights and  *)
(* for the weights all multiplied by the same positive factor.             *)
C14_ScaleInvariant ==
  calcResult # NotComputed =>
    \A k \in ScaleFactors :
      (\A c \in DOMAIN calcWeights :
         ScaledWeights(calcWeights, k)[c] \in WeightLiterals)
        => calculateOverallScore(calcScores, ScaledWeights(calcWeights, k))
             = calcResult

\* The categories a score is added for or changed in
UnweightedCategories ==
  {"leadership", "experience", "communicationSkills"} \ DOMAIN calcWeights

(* C15: a category of the scores that the weights do not have is ignored:  *)
(* with a score of any value added for it, or its score changed, the       *)
(* weighted sum, the total weight and the number returned are the same.    *)
C15_UnweightedIgnored ==
  calcResult # NotComputed =>
    \A category \in UnweightedCategories, value \in CalcScoreValues :
      /\ ScoreLoop(WithScore(calcScores, category, value), calcWeights, 1,
                   <<FZero, FZero>>)
           = ScoreLoop(calcScores, calcWeights, 1, <<FZero, FZero>>)
      /\ calculateOverallScore(WithScore(calcScores, category, value),
                               calcWeights)
           = calcResult

\* C15: the call returned for scores that have a category with a score
\* other than 0 for which the weights have nothing, and another category
\* for which they have a weight
C15_Witness ==
  /\ calcResult # NotComputed
  /\ calcResult > 0
  /\ \E c \in DOMAIN calcScores.v \ DOMAIN calcWeights :
       calcScores.v[c].v > 0

\* The suggestedScores of the parsed object has the category
AIGave(category) ==
  /\ "suggestedScores" \in DOMAIN aiResponse
  /\ aiResponse.suggestedScores.t = "object"
  /\ category \in DOMAIN aiResponse.suggestedScores.v

(* C16: the suggestedScores that a route returns has each of the four      *)
(* categories, and has 5 for each of them that the AI left out.            *)
C16_SuggestedScoresShape ==
  routeResult # Undefined =>
    /\ routeResult.suggestedScores.t = "object"
    /\ \A i \in 1..Len(StdCategories) :
         LET category == StdCategories[i]
             suggested == routeResult.suggestedScores.v
         IN  /\ category \in DOMAIN suggested
             /\ ~AIGave(category) => suggested[category] = Num(50)

\* The candidate is in the array
Selected(selected, candidate) ==
  \E i \in 1..Len(selected) : selected[i].id = candidate.id

(* C17: the selection never holds more than 3 candidates nor the same      *)
(* candidate id twice; a click on a selected candidate removes it, and a   *)
(* click on a fourth candidate leaves the selection as it was.             *)
C17_SelectionBounded ==
  /\ Len(selectedCandidates) <= 3
  /\ Cardinality(IdsOf(selectedCandidates)) = Len(selectedCandidates)
  /\ clickedCandidate # Null =>
       /\ Selected(selectedBefore, clickedCandidate) =>
            /\ ~Selected(selectedCandidates, clickedCandidate)
            /\ selectedCandidates =
                 SelectSeq(selectedBefore,
                           LAMBDA c : c.id # clickedCandidate.id)
       /\ ~Selected(selectedBefore, clickedCandidate)
            /\ Len(selectedBefore) = 3 =>
              selectedCandidates = selectedBefore

\* C17: with three candidates selected, a fourth candidate was clicked
C17_Witness ==
  /\ clickedCandidate # Null
  /\ Len(selectedBefore) = 3
  /\ ~Selected(selectedBefore, clickedCandidate)
  /\ Len(selectedCandidates) = 3

\* The ids of the uploads of the type, in the order of the uploads
UploadedIds(documentType) ==
  LET ofType == SelectSeq(uploadLog, LAMBDA up : up[1] = documentType)
  IN  [i \in 1..Len(ofType) |-> ofType[i][2]]

\* The ids of the stored notes or transcripts, in their order
StoredIds(documents, documentType) ==
  LET stored == Get(documents, documentType)
  IN  IF stored.t = "array"
      THEN [i \in 1..Len(stored.v) |-> stored.v[i].v.id]
      ELSE <<>>

\* The ids are ids of the sequence all, each once and in the order of all
InOrderOf(ids, all) ==
  /\ \A i \in 1..Len(ids) : \E k \in 1..Len(all) : all[k] = ids[i]
  /\ \A i, j \in 1..Len(ids) :
       i < j => \E k, m \in 1..Len(all) :
                  k < m /\ all[k] = ids[i] /\ all[m] = ids[j]

(* C18: the documents of every stored candidate hold one resume and one    *)
(* cover letter at most, the one uploaded last unless it was deleted; the  *)
(* notes and the transcripts hold every uploaded one that was not deleted, *)
(* each once, in the order of the uploads.                                 *)
C18_DocumentsKept ==
  \A i \in DOMAIN collection :
    LET documents == collection[i].documents
    IN  /\ \A documentType \in {"resume", "coverLetter"} :
             LET stored == Get(documents, documentType)
                 ids == UploadedIds(documentType)
             IN  /\ stored.t \in {"undefined", "null", "object"}
                 /\ ids # <<>> /\ ids[Len(ids)] \notin deleteLog =>
                      stored.t = "object" /\ stored.v.id = ids[Len(ids)]
        /\ \A documentType \in {"notes", "transcripts"} :
             LET ids == StoredIds(documents, documentType)
                 all == UploadedIds(documentType)
             IN  /\ InOrderOf(ids, all)
                 /\ \A k \in 1..Len(all) :
                      all[k] \notin deleteLog =>
                        \E j \in 1..Len(ids) : ids[j] = all[k]

\* The candidate has no documents, or documents without notes
LacksNotes(c) ==
  \/ "documents" \notin DOMAIN c
  \/ c.documents.t # "object"
  \/ "notes" \notin DOMAIN c.documents.v

\* The optional contact fields the candidate has no string for
MissingContacts(c) ==
  {f \in {"phone", "linkedin", "github"} :
     f \notin DOMAIN c \/ c[f].t # "string"}

\* One of the strings the candidate does have contains the search term
PresentFieldMatches(c) ==
  \E str \in SearchedStrings(c) :
    Includes(ToLowerCase(str), ToLowerCase(Given("searchTerm").v))

(* C19: a call of getCandidates on candidates without phone, LinkedIn,     *)
(* GitHub, documents or notes returns and raises no error; under a search  *)
(* term such a candidate is kept exactly if one of the fields it has       *)
(* contains the term, and the sort returns every kept candidate once.      *)
C19_MissingDataTolerated ==
  queryState # "idle" =>
    /\ queryState = "done"
    /\ SameCandidates(queryResult, queryFiltered)
    /\ SearchGiven =>
         \A c \in Range(FilteredCandidates(collection, Without("searchTerm"),
                                           sortArg, ClockNow)) :
           LacksNotes(c) \/ MissingContacts(c) # {} =>
             (c \in Range(queryFiltered) <=> PresentFieldMatches(c))

\* C19: the term "AL" kept a candidate that has no documents and no phone
\* by its name and removed one whose documents have no notes, and the
\* result was put in order by the client
C19_Witness ==
  /\ QueryDone
  /\ Given("searchTerm") = Str(<<65, 76>>)
  /\ ClientSorted
  /\ \E i \in 1..Len(queryResult) :
       /\ "documents" \notin DOMAIN queryResult[i]
       /\ "phone" \in MissingContacts(queryResult[i])
  /\ \E i \in 1..Len(Unfiltered) :
       /\ "documents" \in DOMAIN Unfiltered[i]
       /\ LacksNotes(Unfiltered[i])
       /\ Unfiltered[i] \notin Range(queryResult)

\* The analysis stored with the document of the type, Undefined for none
StoredAnalysis(candidate, documentType) ==
  Get(Get(Prop(candidate, "documents"), documentType), "aiAnalysis")

\* The time of the analysis, 0 for none
GeneratedAt(analysis) ==
  IF analysis.t = "object" THEN Get(analysis, "generatedAt").v ELSE 0

(* C20: once both handlers of an analysis have finished, the candidate of  *)
(* the page holds the analysis in its document and the scores the analysis *)
(* suggested, and its documents and scores are those of the stored         *)
(* candidate, in whichever order the two handlers finished.                *)
C20_AnalysisWrittenBack ==
  PageLoaded /\ pending = {} =>
    \A i \in DOMAIN collection, documentType \in {"resume", "coverLetter"} :
      LET analysis == StoredAnalysis(collection[i], documentType)
      IN  /\ collection[i].id = pageCandidate.id
          /\ analysis.t = "object"
          /\ \A other \in {"resume", "coverLetter"} :
               GeneratedAt(StoredAnalysis(collection[i], other))
                 <= GeneratedAt(analysis)
          => /\ StoredAnalysis(pageCandidate, documentType) = analysis
             /\ pageCandidate.scores = Get(analysis, "suggestedScores")
             /\ pageCandidate.scores = collection[i].scores
             /\ Prop(pageCandidate, "documents") = collection[i].documents

(* C21: once every upload and analysis of the page has finished, the       *)
(* stored documents hold every note and transcript that was uploaded and   *)
(* the candidate of the page shows the rating and the status that are      *)
(* stored, also when they were saved while an analysis was awaited.        *)
C21_SavedChangesKept ==
  PageLoaded /\ pending = {} =>
    \A i \in DOMAIN collection :
      collection[i].id = pageCandidate.id =>
        /\ pageCandidate.starRating = collection[i].starRating
        /\ pageCandidate.status = collection[i].status
        /\ \A documentType \in {"notes", "transcripts"} :
             LET ids == StoredIds(collection[i].documents, documentType)
                 all == UploadedIds(documentType)
             IN  \A k \in 1..Len(all) : \E j \in 1..Len(ids) : ids[j] = all[k]

(* C22: the query loadCandidates falls back on when its first query has    *)
(* failed has no orderBy constraint, only the filter on the status Active. *)
C22_FallbackUnsorted ==
  Len(queryLog) = 2 =>
    /\ \A k \in 1..Len(queryLog[2]) : queryLog[2][k].op # "orderBy"
    /\ queryLog[2] = <<Where("status", Str(StrActive))>>

\* What the stored record is to hold for a field the data has no usable
\* value for
RequiredDefaults ==
  [name |-> Str(<<>>), email |-> Str(<<>>), starRating |-> Num(0),
   status |-> Str(StrActive), scores |-> StdScores(0, 0, 0, 0),
   overallScore |-> Num(0),
   documents |-> Obj(DocumentKeys,
                     [resume |-> Null, coverLetter |-> Null,
                      notes |-> Arr(<<>>), transcripts |-> Arr(<<>>)])]

(* C23: the record createCandidate stores has the default of every         *)
(* required field that the data leaves out or gives as undefined or null.  *)
C23_DefaultsEnsured ==
  createArg # <<>> /\ collection # <<>> =>
    \A f \in CreateFields :
      Prop(createArg, f) \in {Undefined, Null} =>
        Prop(collection[1], f) = RequiredDefaults[f]

\* The body is an object that has fewer than two candidates or no job
\* description
LacksComparands(body) ==
  /\ body.t = "object"
  /\ \/ Get(body, "candidates").t # "array"
     \/ Len(Get(body, "candidates").v) < 2
     \/ Get(body, "jobDescription").t # "string"
     \/ Get(body, "jobDescription").v = <<>>

C25_ProgressFollowsUpload ==
  /\ ~uploader.isUploading => uploader.progress = 0
  /\ uploader.awaiting => uploader.progress <= 90
  /\ uploader.progress = 100 => uploader.resetDue

\* The documents of the candidate of the last call in the store docs
DocumentsIn(docs) ==
  LET i == CHOOSE k \in DOMAIN docs : docs[k].id = lastCall.candidateId
  IN  docs[i].documents

\* The store differs from the store before the last call in the documents
\* of the candidate at most, and there in the field of the type at most
OnlyTypeChanged ==
  /\ DOMAIN collection = DOMAIN lastCall.before
  /\ \A i \in DOMAIN collection :
       /\ DOMAIN collection[i] = DOMAIN lastCall.before[i]
       /\ \A f \in DOMAIN collection[i] \ {"documents"} :
            collection[i][f] = lastCall.before[i][f]
       /\ collection[i].id # lastCall.candidateId =>
            collection[i] = lastCall.before[i]
  /\ \A documentType \in DocumentTypes \ {lastCall.documentType} :
       Get(DocumentsIn(collection), documentType)
         = Get(DocumentsIn(lastCall.before), documentType)

(* C26: deleteCandidateDocument for a note or transcript with an id of the *)
(* list removes that one entry and keeps the others in their order; for a  *)
(* resume or cover letter it leaves null; the record is updated whether    *)
(* the file could be deleted from the storage or not; with an id that is   *)
(* not in the list, or without an id, the store is unchanged.              *)
C26_DeleteExactlyOne ==
  lastCall # Null /\ lastCall.fn = "delete"
    /\ HasDoc(lastCall.before, lastCall.candidateId) =>
    LET was == Get(DocumentsIn(lastCall.before), lastCall.documentType)
        is == Get(DocumentsIn(collection), lastCall.documentType)
    IN  /\ OnlyTypeChanged
        /\ IF lastCall.documentType \in {"resume", "coverLetter"}
           THEN /\ ~Truthy(is)
                /\ Truthy(was) => is = Null
           ELSE IF \E k \in 1..Len(was.v) : was.v[k].v.id = lastCall.documentId
           THEN \E k \in 1..Len(was.v) :
                  /\ was.v[k].v.id = lastCall.documentId
                  /\ is.v = SubSeq(was.v, 1, k - 1)
                              \o SubSeq(was.v, k + 1, Len(was.v))
           ELSE collection = lastCall.before

\* C26: a note that is not the last of two was deleted while the file
\* could not be deleted from the storage
C26_Witness ==
  /\ lastCall # Null
  /\ lastCall.fn = "delete"
  /\ lastCall.documentType = "notes"
  /\ lastCall.storageFails
  /\ HasDoc(lastCall.before, lastCall.candidateId)
  /\ LET was == Get(DocumentsIn(lastCall.before), "notes").v
     IN  /\ Len(was) = 2
         /\ was[1].v.id = lastCall.documentId
         /\ Len(Get(DocumentsIn(collection), "notes").v) = 1

(* C27: uploadCandidateDocument for an id that no candidate has ends with  *)
(* the error 'not found' and leaves the store and the storage as they      *)
(* were: no file of the call is in the storage.                            *)
C27_UploadNotFoundClean ==
  lastCall # Null /\ lastCall.fn = "upload"
    /\ ~lastCall.storageFails
    /\ ~HasDoc(lastCall.before, lastCall.candidateId) =>
    /\ lastCall.outcome = "not found"
    /\ collection = lastCall.before
    /\ storage = lastCall.files

PageHandlers ==
  {"handleRatingChange", "handleStatusChange", "handleUpdateScores",
   "handleDocumentUpload"}

(* C28: when the updateCandidate of a rating, status, score or document    *)
(* change has thrown, the candidate of the page is the one from before the *)
(* change; a changed field shows that the update was stored.               *)
C28_FailedUpdateKeepsState ==
  lastCall # Null /\ lastCall.fn \in PageHandlers =>
    /\ lastCall.outcome # "returned" => pageCandidate = lastCall.before
    /\ \A f \in DOMAIN lastCall.updates :
         Prop(pageCandidate, f) # Prop(lastCall.before, f) =>
           /\ lastCall.outcome = "returned"
           /\ \E i \in DOMAIN collection :
                /\ collection[i].id = pageCandidate.id
                /\ collection[i][f] = pageCandidate[f]

\* C28: the update of a rating that differs from the one shown has failed
\* after an upload of a document had failed as well
C28_Witness ==
  /\ lastCall # Null
  /\ lastCall.fn = "handleRatingChange"
  /\ lastCall.outcome = "write failed"
  /\ lastCall.updates.starRating # lastCall.before.starRating
  /\ pageCandidate.starRating = lastCall.before.starRating
  /\ storage # {}
  /\ Get(Prop(pageCandidate, "documents"), "resume") = Null

====
